---- MODULE Spec2Model ----
(***************************************************************************)
(* Model of gdoc's change-detection / local-state reconciliation engine:   *)
(* the per-document state file (state.py), the pre-flight check            *)
(* (notify.py) and the command handlers that wrap them (cli.py), run       *)
(* against one remote document that other editors may change at any time.  *)
(*                                                                         *)
(* Conventions: Python None for a version is None (0; real versions start  *)
(* at 1), the empty timestamp "" is NoTime (0; the clock starts at 1), id  *)
(* lists are sets (their order is never observed), an absent ChangeInfo or *)
(* state file is a record whose present/exists flag is FALSE.              *)
(***************************************************************************)
EXTENDS Integers, Sequences, FiniteSets, TLC

\* ---- bounds -------------------------------------------------------------
MaxVersion == 2
MaxMatches == 2
MaxInsertOps == 1
MaxClock == 3
MaxDocLen == 4
MaxNeedle == 2
MaxCopies == 3
MaxSep == 1
MaxMatchLen == 2
MaxPlainLen == 2

\* ---- vocabulary ---------------------------------------------------------
None == 0
NoTime == 0
NoId == "-"
CommentIds == {"c1"}
Versions == 1..MaxVersion

ReadCmds == {"cat", "info"}
OverwriteCmds == {"write", "push"}
CommentCmds == {"comment", "reply", "resolve", "reopen", "delete-comment"}
PlainCmds == {"tabs"}
HookCmds == {"sync-hook", "pull-hook"}
Commands == ReadCmds \cup OverwriteCmds \cup CommentCmds \cup PlainCmds
              \cup HookCmds \cup {"edit", "pull", "diff"}

VARIABLES
    remoteVersion,    \* Drive file version of the remote document
    remoteRevision,   \* Docs revision id of the remote document
    remoteComments,   \* comment id -> [status, mtime]
    now,              \* wall clock (timestamps are instants 1, 2, ...)
    stateFile,        \* the persisted DocState: [exists, st]
    cmd,              \* the command invocation in progress
    hist              \* read / own write / read bookkeeping

vars == <<remoteVersion, remoteRevision, remoteComments, now,
          stateFile, cmd, hist>>

\* The parts of the program that are studied on their own, apart from the
\* command handlers, each keep their state in a variable of their own; it is
\* Unused wherever that part is not the one under study.
VARIABLES
    watch,            \* the comment watermark under a running clock
    search,           \* find_text_in_document on one document and needle
    edits,            \* the request lists replace_formatted builds
    disk              \* the state directory during save_state / load_state

VARIABLES
    race,             \* two invocations updating one state file
    merge,            \* the comment id sets a pre-flight accumulates
    md,               \* parse_markdown / _parse_inline on one text
    replies,          \* a comment's reply over successive pre-flights
    cleanup           \* the cleanup pass of replace_formatted

more == <<race, merge, md, replies, cleanup>>

side == <<watch, search, edits, disk, more>>

Unused == "unused"

MoreUnused ==
    /\ race = Unused
    /\ merge = Unused
    /\ md = Unused
    /\ replies = Unused
    /\ cleanup = Unused

SideUnused ==
    /\ watch = Unused
    /\ search = Unused
    /\ edits = Unused
    /\ disk = Unused
    /\ MoreUnused

\* ---- state.py -----------------------------------------------------------
DocState0 ==
    [last_seen |-> NoTime, last_version |-> None, last_read_version |-> None,
     last_comment_check |-> NoTime, known_comment_ids |-> {},
     known_resolved_ids |-> {}]

NoState == [exists |-> FALSE, st |-> DocState0]

load_state(file) == file

save_state(state) == [exists |-> TRUE, st |-> state]

NoPatch ==
    [add_comment_id |-> NoId, add_resolved_id |-> NoId,
     remove_resolved_id |-> NoId, remove_comment_id |-> NoId]

\* the patch each comment command hands to the state update
comment_state_patch(command, id) ==
    CASE command = "comment" -> [NoPatch EXCEPT !.add_comment_id = id]
      [] command = "reply" -> [NoPatch EXCEPT !.add_comment_id = id]
      [] command = "resolve" ->
            [NoPatch EXCEPT !.add_comment_id = id, !.add_resolved_id = id]
      [] command = "reopen" ->
            [NoPatch EXCEPT !.add_comment_id = id, !.remove_resolved_id = id]
      [] command = "delete-comment" -> [NoPatch EXCEPT !.remove_comment_id = id]
      [] OTHER -> NoPatch

apply_comment_state_patch(state, p) ==
    LET s1 == IF p.add_comment_id # NoId
              THEN [state EXCEPT !.known_comment_ids = @ \cup {p.add_comment_id}]
              ELSE state
        s2 == IF p.add_resolved_id # NoId
              THEN [s1 EXCEPT !.known_resolved_ids = @ \cup {p.add_resolved_id}]
              ELSE s1
        s3 == IF p.remove_resolved_id # NoId
              THEN [s2 EXCEPT !.known_resolved_ids = @ \ {p.remove_resolved_id}]
              ELSE s2
    IN  IF p.remove_comment_id # NoId
        THEN [s3 EXCEPT !.known_comment_ids = @ \ {p.remove_comment_id},
                        !.known_resolved_ids = @ \ {p.remove_comment_id}]
        ELSE s3

\* variants of quiet_update: last_read_version forgotten; the comment
\* timestamp advanced
quiet_update_version_only(state, command, command_version) ==
    IF command = "info" /\ command_version # None
    THEN [state EXCEPT !.last_version = command_version]
    ELSE state

quiet_update_advances_check(state, command, command_version) ==
    IF command = "info" /\ command_version # None
    THEN [state EXCEPT !.last_version = command_version,
                       !.last_read_version = command_version,
                       !.last_comment_check = state.last_seen]
    ELSE [state EXCEPT !.last_comment_check = state.last_seen]

\* if quiet: only info's own version moves the version fields
quiet_update(state, command, command_version) ==
    IF command = "info" /\ command_version # None
    THEN [state EXCEPT !.last_version = command_version,
                       !.last_read_version = command_version]
    ELSE state

\* variants of preflight_update: the id overwrite dropped; every command
\* taken for a read; last_version set for reads only
preflight_update_keeps_check(state, change_info, command) ==
    LET is_read == command \in {"cat", "info"}
        s1 == IF change_info.current_version # None
              THEN [state EXCEPT
                      !.last_version = change_info.current_version,
                      !.last_read_version =
                          IF is_read THEN change_info.current_version ELSE @]
              ELSE state
        s3 == IF change_info.all_comment_ids # {}
              THEN [s1 EXCEPT !.known_comment_ids = change_info.all_comment_ids]
              ELSE s1
    IN  [s3 EXCEPT !.known_resolved_ids = change_info.all_resolved_ids]

preflight_update_keeps_ids(state, change_info, command) ==
    LET is_read == command \in {"cat", "info"}
        s1 == IF change_info.current_version # None
              THEN [state EXCEPT
                      !.last_version = change_info.current_version,
                      !.last_read_version =
                          IF is_read THEN change_info.current_version ELSE @]
              ELSE state
        s2 == IF change_info.preflight_timestamp # NoTime
              THEN [s1 EXCEPT !.last_comment_check = change_info.preflight_timestamp]
              ELSE s1
    IN  [s2 EXCEPT !.known_resolved_ids = change_info.all_resolved_ids]

preflight_update_all_read(state, change_info, command) ==
    LET is_read == TRUE
        s1 == IF change_info.current_version # None
              THEN [state EXCEPT
                      !.last_version = change_info.current_version,
                      !.last_read_version =
                          IF is_read THEN change_info.current_version ELSE @]
              ELSE state
        s2 == IF change_info.preflight_timestamp # NoTime
              THEN [s1 EXCEPT !.last_comment_check = change_info.preflight_timestamp]
              ELSE s1
        s3 == IF change_info.all_comment_ids # {}
              THEN [s2 EXCEPT !.known_comment_ids = change_info.all_comment_ids]
              ELSE s2
    IN  [s3 EXCEPT !.known_resolved_ids = change_info.all_resolved_ids]

preflight_update_reads_only(state, change_info, command) ==
    LET is_read == command \in {"cat", "info"}
        s1 == IF change_info.current_version # None /\ is_read
              THEN [state EXCEPT
                      !.last_version = change_info.current_version,
                      !.last_read_version = change_info.current_version]
              ELSE state
        s2 == IF change_info.preflight_timestamp # NoTime
              THEN [s1 EXCEPT !.last_comment_check = change_info.preflight_timestamp]
              ELSE s1
        s3 == IF change_info.all_comment_ids # {}
              THEN [s2 EXCEPT !.known_comment_ids = change_info.all_comment_ids]
              ELSE s2
    IN  [s3 EXCEPT !.known_resolved_ids = change_info.all_resolved_ids]

\* variant of preflight_update: the comment watermark taken at the save
preflight_update_check_at_save(state, change_info, command) ==
    LET is_read == command \in {"cat", "info"}
        s1 == IF change_info.current_version # None
              THEN [state EXCEPT
                      !.last_version = change_info.current_version,
                      !.last_read_version =
                          IF is_read THEN change_info.current_version ELSE @]
              ELSE state
        s2 == IF change_info.preflight_timestamp # NoTime
              THEN [s1 EXCEPT !.last_comment_check = state.last_seen]
              ELSE s1
        s3 == IF change_info.all_comment_ids # {}
              THEN [s2 EXCEPT !.known_comment_ids = change_info.all_comment_ids]
              ELSE s2
    IN  [s3 EXCEPT !.known_resolved_ids = change_info.all_resolved_ids]

\* elif change_info is not None: fold the pre-flight data in
preflight_update(state, change_info, command) ==
    LET is_read == command \in {"cat", "info"}
        s1 == IF change_info.current_version # None
              THEN [state EXCEPT
                      !.last_version = change_info.current_version,
                      !.last_read_version =
                          IF is_read THEN change_info.current_version ELSE @]
              ELSE state
        s2 == IF change_info.preflight_timestamp # NoTime
              THEN [s1 EXCEPT !.last_comment_check = change_info.preflight_timestamp]
              ELSE s1
        s3 == IF change_info.all_comment_ids # {}
              THEN [s2 EXCEPT !.known_comment_ids = change_info.all_comment_ids]
              ELSE s2
    IN  [s3 EXCEPT !.known_resolved_ids = change_info.all_resolved_ids]

\* variants of version_override: never applied; applied to write only
version_override_never(state, command, command_version) == state

version_override_write_only(state, command, command_version) ==
    IF command_version # None /\ command = "write"
    THEN [state EXCEPT !.last_version = command_version]
    ELSE state

\* override last_version with the post-mutation version
version_override(state, command, command_version) ==
    IF command_version # None /\ command \notin {"cat", "info"}
    THEN [state EXCEPT !.last_version = command_version]
    ELSE state

\* variant of update_state_after_command: the patch applied before the
\* pre-flight data
update_state_patch_first(file, change_info, command, quiet, command_version, patch, ts) ==
    LET state == IF load_state(file).exists THEN load_state(file).st ELSE DocState0
        s0 == apply_comment_state_patch(state, patch)
        s1 == [s0 EXCEPT !.last_seen = ts]
        s2 == IF quiet THEN quiet_update(s1, command, command_version)
              ELSE IF change_info.present
                   THEN preflight_update(s1, change_info, command)
                   ELSE s1
        s3 == version_override(s2, command, command_version)
    IN  save_state(s3)

update_state_after_command(file, change_info, command, quiet, command_version, patch, ts) ==
    LET state == IF load_state(file).exists THEN load_state(file).st ELSE DocState0
        s1 == [state EXCEPT !.last_seen = ts]
        s2 == IF quiet THEN quiet_update(s1, command, command_version)
              ELSE IF change_info.present
                   THEN preflight_update(s1, change_info, command)
                   ELSE s1
        s3 == version_override(s2, command, command_version)
    IN  save_state(apply_comment_state_patch(s3, patch))

\* ---- notify.py ----------------------------------------------------------
NoInfo ==
    [present |-> FALSE, is_first_interaction |-> FALSE, doc_edited |-> FALSE,
     old_version |-> None, new_version |-> None, new_comments |-> {},
     newly_resolved |-> {}, newly_reopened |-> {}, current_version |-> None,
     preflight_timestamp |-> NoTime, all_comment_ids |-> {},
     all_resolved_ids |-> {}, last_read_version |-> None]

has_conflict(info) ==
    IF info.current_version = None THEN FALSE
    ELSE IF info.last_read_version = None THEN TRUE
    ELSE info.current_version # info.last_read_version

\* the comments the remote service lists: not deleted, modified at or after
\* start_modified_time when one is given
list_comments(comments, start_modified_time) ==
    {c \in CommentIds :
        /\ comments[c].status # "absent"
        /\ start_modified_time = NoTime \/ comments[c].mtime >= start_modified_time}

\* variant of pre_flight: doc_edited compares with last_read_version
pre_flight_against_read(file, current_version, comments, preflight_ts) ==
    LET state == load_state(file)
        start_time == IF state.exists THEN state.st.last_comment_check ELSE NoTime
        fetched == list_comments(comments, start_time)
        resolved == {c \in fetched : comments[c].status = "resolved"}
        base == [NoInfo EXCEPT
                   !.present = TRUE,
                   !.current_version = current_version,
                   !.preflight_timestamp = preflight_ts,
                   !.last_read_version =
                       IF state.exists THEN state.st.last_read_version ELSE None]
    IN  IF ~state.exists
        THEN [base EXCEPT !.is_first_interaction = TRUE,
                          !.all_comment_ids = fetched,
                          !.all_resolved_ids = resolved]
        ELSE LET edited == /\ current_version # None
                           /\ state.st.last_read_version # None
                           /\ current_version # state.st.last_read_version
                 known_ids == state.st.known_comment_ids
                 known_resolved == state.st.known_resolved_ids
             IN  [base EXCEPT
                    !.doc_edited = edited,
                    !.old_version = IF edited THEN state.st.last_version ELSE None,
                    !.new_version = IF edited THEN current_version ELSE None,
                    !.new_comments = fetched \ known_ids,
                    !.newly_resolved =
                        (fetched \cap known_ids \cap resolved) \ known_resolved,
                    !.newly_reopened =
                        ((fetched \cap known_ids) \ resolved) \cap known_resolved,
                    !.all_comment_ids = known_ids \cup fetched,
                    !.all_resolved_ids =
                        (known_resolved \cup resolved) \ (fetched \ resolved)]

\* pre_flight for a non-quiet command: current_version is the version of
\* get_file_version's answer, comments the remote comments at the listing
pre_flight(file, current_version, comments, preflight_ts) ==
    LET state == load_state(file)
        start_time == IF state.exists THEN state.st.last_comment_check ELSE NoTime
        fetched == list_comments(comments, start_time)
        resolved == {c \in fetched : comments[c].status = "resolved"}
        base == [NoInfo EXCEPT
                   !.present = TRUE,
                   !.current_version = current_version,
                   !.preflight_timestamp = preflight_ts,
                   !.last_read_version =
                       IF state.exists THEN state.st.last_read_version ELSE None]
    IN  IF ~state.exists
        THEN [base EXCEPT !.is_first_interaction = TRUE,
                          !.all_comment_ids = fetched,
                          !.all_resolved_ids = resolved]
        ELSE LET edited == /\ current_version # None
                           /\ state.st.last_version # None
                           /\ current_version # state.st.last_version
                 known_ids == state.st.known_comment_ids
                 known_resolved == state.st.known_resolved_ids
             IN  [base EXCEPT
                    !.doc_edited = edited,
                    !.old_version = IF edited THEN state.st.last_version ELSE None,
                    !.new_version = IF edited THEN current_version ELSE None,
                    !.new_comments = fetched \ known_ids,
                    !.newly_resolved =
                        (fetched \cap known_ids \cap resolved) \ known_resolved,
                    !.newly_reopened =
                        ((fetched \cap known_ids) \ resolved) \cap known_resolved,
                    !.all_comment_ids = known_ids \cup fetched,
                    !.all_resolved_ids =
                        (known_resolved \cup resolved) \ (fetched \ resolved)]

\* ---- one command invocation --------------------------------------------
IdleCmd ==
    [name |-> "cat", quiet |-> FALSE, force |-> FALSE, target |-> NoId,
     pc |-> "idle", outcome |-> "none", info |-> NoInfo,
     checked |-> FALSE, observed |-> None,
     revision_id |-> None, nmatches |-> 0, nops |-> 0,
     submitted |-> 0, required |-> None, rev_at_submit |-> None, applied |-> 0,
     command_version |-> None, calls |-> <<>>,
     had_state |-> FALSE, baseline |-> None]

NoHist == [phase |-> 0, conflict |-> FALSE, doc_edited |-> FALSE,
           recorded |-> FALSE, baseline |-> None, current |-> None,
           own |-> 0, announced |-> FALSE]

Init ==
    /\ remoteVersion = 1
    /\ remoteRevision = 1
    /\ remoteComments = [c \in CommentIds |-> [status |-> "absent", mtime |-> NoTime]]
    /\ now = 1
    /\ stateFile = NoState
    /\ cmd = IdleCmd
    /\ hist = NoHist
    /\ SideUnused

\* the answer of a version-carrying call: the "version" key may be missing
Answer(version_known) == IF version_known THEN remoteVersion ELSE None

\* the handler returns or raises: its locals are gone, what stays is what the
\* invocation did
Fail(kind) ==
    [cmd EXCEPT !.pc = "done", !.outcome = kind, !.info = NoInfo,
                !.target = NoId, !.nmatches = 0]

Steps_update_early(name) ==
    CASE name \in {"cat", "info", "tabs", "pull"} -> <<"preflight", "body", "update">>
      [] name = "diff" -> <<"preflight", "body", "update", "post">>
      [] name = "edit" ->
            <<"preflight", "fetch", "batch", "cleanup", "update", "post">>
      [] name \in OverwriteCmds -> <<"check", "overwrite", "update">>
      [] name \in CommentCmds -> <<"preflight", "mutate", "update", "post">>
      [] name = "sync-hook" -> <<"overwrite", "update">>
      [] name = "pull-hook" -> <<"hookversion", "body", "update">>

Steps_update_before_fetch(name) ==
    CASE name \in {"cat", "info", "tabs", "pull"} -> <<"preflight", "body", "update">>
      [] name = "diff" -> <<"preflight", "body", "post", "update">>
      [] name = "edit" ->
            <<"preflight", "update", "fetch", "batch", "cleanup", "post">>
      [] name \in OverwriteCmds -> <<"check", "overwrite", "update">>
      [] name \in CommentCmds -> <<"preflight", "mutate", "post", "update">>
      [] name = "sync-hook" -> <<"overwrite", "update">>
      [] name = "pull-hook" -> <<"hookversion", "body", "update">>

\* the steps of each handler, in the order its code takes them
Steps(name) ==
    CASE name \in {"cat", "info", "tabs", "pull"} -> <<"preflight", "body", "update">>
      [] name = "diff" -> <<"preflight", "body", "post", "update">>
      [] name = "edit" ->
            <<"preflight", "fetch", "batch", "cleanup", "post", "update">>
      [] name \in OverwriteCmds -> <<"check", "overwrite", "update">>
      [] name \in CommentCmds -> <<"preflight", "mutate", "post", "update">>
      [] name = "sync-hook" -> <<"overwrite", "update">>
      [] name = "pull-hook" -> <<"hookversion", "body", "update">>

StepAfter(name, step) ==
    LET s == Steps(name)
        i == CHOOSE k \in 1..Len(s) : s[k] = step
    IN  IF i = Len(s) THEN "done" ELSE s[i + 1]

\* a step went through: on to the next one, or return 0 after the last
Advance(c) ==
    IF StepAfter(c.name, c.pc) = "done"
    THEN [c EXCEPT !.pc = "done", !.outcome = "ok", !.info = NoInfo,
                   !.target = NoId, !.nmatches = 0]
    ELSE [c EXCEPT !.pc = StepAfter(c.name, c.pc)]

\* the command name the handler passes to update_state_after_command
StateCommand(name) ==
    CASE name = "sync-hook" -> "push"
      [] name = "pull-hook" -> "pull"
      [] OTHER -> name

\* ---- cli.py: the write pre-check ---------------------------------------
\* variant of nonquiet_blocks: only the missing baseline blocks
nonquiet_blocks_baseline_only(info, force) ==
    ~force /\ info.last_read_version = None

\* non-quiet branch of _check_write_conflict, after pre_flight returned info
nonquiet_blocks(info, force) ==
    ~force /\ (info.last_read_version = None \/ has_conflict(info))

\* quiet branch: no state file or no read baseline
quiet_no_baseline(state, force) ==
    ~force /\ (~state.exists \/ state.st.last_read_version = None)

quiet_version_blocks_older(state, force, current_version) ==
    /\ ~force
    /\ current_version # None
    /\ current_version < state.st.last_read_version

\* quiet branch: the version check
quiet_version_blocks(state, force, current_version) ==
    /\ ~force
    /\ current_version # None
    /\ current_version # state.st.last_read_version

\* ---- cli.py / docs.py: the edit batch ------------------------------------
required_revision_latest(revision_id) == remoteRevision

\* writeControl.requiredRevisionId of the main batch
required_revision(revision_id) == revision_id

\* the remote service applies a batch only to the revision it names
RemoteAccepts(required, current_revision) == required = current_revision

\* ---- history bookkeeping: read, own write, read -------------------------
\* (own follows a mutation of this client on its own: 1 once an edit or
\* write has changed the remote document, 2 once that command has saved its
\* post-mutation version, 3 once the non-quiet pre-flight of the very next
\* command has run, announced then holding that pre-flight's doc_edited; a
\* third-party edit, or a next command without such a pre-flight, ends it)
Mutated(c) ==
    \/ c.applied > 0
    \/ \E i \in 1..Len(c.calls) : c.calls[i] = "update_doc_content"

PreFlightRan(c) ==
    ~c.quiet /\ \E i \in 1..Len(c.calls) : c.calls[i] = "list_comments"

OwnAfter(next_cmd) ==
    IF hist.own = 2
    THEN IF PreFlightRan(next_cmd) /\ ~PreFlightRan(cmd) THEN 3 ELSE 0
    ELSE IF next_cmd.pc = "done" /\ next_cmd.outcome # "ok"
    THEN IF hist.own = 3 THEN 3 ELSE 0
    ELSE IF /\ next_cmd.name \in {"edit", "write"}
            /\ Mutated(next_cmd) /\ ~Mutated(cmd)
    THEN 1
    ELSE hist.own

AnnouncedAfter(next_cmd) ==
    IF OwnAfter(next_cmd) # 3 THEN FALSE
    ELSE IF hist.own = 3 THEN hist.announced
    ELSE pre_flight(stateFile, next_cmd.observed, remoteComments, now).doc_edited

HistOnStart(name) ==
    LET read_write_read ==
            IF \/ hist.phase = 1 /\ name \in {"edit", "write"}
               \/ hist.phase = 2 /\ name \in ReadCmds
            THEN hist ELSE NoHist
    IN  [read_write_read EXCEPT !.own = IF hist.own = 2 THEN 2 ELSE 0,
                                !.announced = FALSE]

HistOnStep(next_cmd) ==
    LET read_write_read ==
            IF next_cmd.pc = "done" /\ next_cmd.outcome # "ok" THEN NoHist ELSE hist
    IN  [read_write_read EXCEPT !.own = OwnAfter(next_cmd),
                                !.announced = AnnouncedAfter(next_cmd)]

HistOnPreFlight(next_cmd) ==
    LET read_write_read ==
            IF next_cmd.pc = "done" THEN NoHist
            ELSE IF /\ hist.phase = 2 /\ next_cmd.name \in ReadCmds
                    /\ next_cmd.info.present
            THEN [hist EXCEPT !.phase = 3,
                              !.conflict = has_conflict(next_cmd.info),
                              !.doc_edited = next_cmd.info.doc_edited,
                              !.current = next_cmd.info.current_version]
            ELSE hist
    IN  [read_write_read EXCEPT !.own = OwnAfter(next_cmd),
                                !.announced = AnnouncedAfter(next_cmd)]

HistOnUpdate(saved) ==
    LET read_write_read ==
            IF cmd.name \in ReadCmds
            THEN [NoHist EXCEPT !.phase = 1, !.baseline = saved.st.last_read_version]
            ELSE IF hist.phase = 1 /\ cmd.name \in {"edit", "write"}
            THEN [hist EXCEPT !.phase = 2, !.recorded = (cmd.command_version # None)]
            ELSE NoHist
    IN  [read_write_read EXCEPT
           !.own = IF hist.own = 1 /\ cmd.command_version # None THEN 2 ELSE 0,
           !.announced = FALSE]

\* ---- actions -------------------------------------------------------------
\* a handler starts: argument and local-file validation come first
Start(name, quiet, force, target, local_ok) ==
    /\ cmd.pc = "idle"
    /\ name \in HookCmds => quiet
    /\ force => name \in OverwriteCmds
    /\ (target # NoId) <=> (name \in CommentCmds \ {"comment"})
    /\ LET c == [IdleCmd EXCEPT !.name = name, !.quiet = quiet, !.force = force,
                                !.target = target,
                                !.had_state = stateFile.exists,
                                !.baseline = stateFile.st.last_read_version,
                                !.outcome = "running"]
       IN  cmd' = IF local_ok THEN [c EXCEPT !.pc = Steps(name)[1]]
                  ELSE [c EXCEPT !.pc = "done", !.target = NoId,
                                 !.outcome = IF name \in HookCmds THEN "skipped"
                                             ELSE "validation"]
    /\ hist' = IF local_ok THEN HistOnStart(name) ELSE NoHist
    /\ UNCHANGED <<remoteVersion, remoteRevision, remoteComments, now,
                   stateFile>>
    /\ UNCHANGED side

PreFlightCalls ==
    IF stateFile.exists THEN <<"get_file_version", "list_comments">>
    ELSE <<"get_file_version", "list_comments", "get_file_info">>

\* pre_flight(doc_id, quiet) as the handlers other than write and push call it
PreFlight(ok, version_known) ==
    /\ cmd.pc = "preflight"
    /\ cmd.quiet => ok /\ version_known
    /\ cmd' =
         IF cmd.quiet THEN Advance(cmd)
         ELSE IF ~ok THEN [Fail("backend") EXCEPT !.calls = @ \o <<"get_file_version">>]
         ELSE [Advance(cmd) EXCEPT
                 !.info = pre_flight(stateFile, Answer(version_known),
                                     remoteComments, now),
                 !.observed = Answer(version_known),
                 !.calls = @ \o PreFlightCalls]
    /\ hist' = HistOnPreFlight(cmd')
    /\ UNCHANGED <<remoteVersion, remoteRevision, remoteComments, now,
                   stateFile>>
    /\ UNCHANGED side

\* _check_write_conflict(doc_id, quiet, force) of write and push
CheckWriteConflict(ok, version_known) ==
    /\ cmd.pc = "check"
    /\ LET state == load_state(stateFile)
           info == pre_flight(stateFile, Answer(version_known), remoteComments, now)
       IN  IF ~cmd.quiet
           THEN cmd' =
                  IF ~ok
                  THEN [Fail("backend") EXCEPT !.calls = @ \o <<"get_file_version">>]
                  ELSE IF nonquiet_blocks(info, cmd.force)
                  THEN [Fail("conflict") EXCEPT
                          !.checked = TRUE, !.observed = info.current_version,
                          !.calls = @ \o PreFlightCalls]
                  ELSE [Advance(cmd) EXCEPT
                          !.info = info, !.checked = TRUE,
                          !.observed = info.current_version,
                          !.calls = @ \o PreFlightCalls]
           ELSE IF cmd.force
           THEN /\ ok /\ version_known
                /\ cmd' = Advance(cmd)
           ELSE IF quiet_no_baseline(state, cmd.force)
           THEN /\ ok /\ version_known
                /\ cmd' = [Fail("conflict") EXCEPT !.checked = TRUE]
           ELSE cmd' =
                  IF ~ok
                  THEN [Fail("backend") EXCEPT !.calls = @ \o <<"get_file_version">>]
                  ELSE IF quiet_version_blocks(state, cmd.force, Answer(version_known))
                  THEN [Fail("conflict") EXCEPT
                          !.checked = TRUE, !.observed = Answer(version_known),
                          !.calls = @ \o <<"get_file_version">>]
                  ELSE [Advance(cmd) EXCEPT
                          !.checked = TRUE,
                          !.observed = Answer(version_known),
                          !.calls = @ \o <<"get_file_version">>]
    /\ hist' = HistOnStep(cmd')
    /\ UNCHANGED <<remoteVersion, remoteRevision, remoteComments, now,
                   stateFile>>
    /\ UNCHANGED side

\* update_doc_content(doc_id, content): write, push and the sync hook
UpdateDocContent(ok) ==
    /\ cmd.pc = "overwrite"
    /\ ok => remoteVersion < MaxVersion
    /\ IF ok
       THEN /\ remoteVersion' = remoteVersion + 1
            /\ remoteRevision' = remoteRevision + 1
            /\ cmd' = [Advance(cmd) EXCEPT
                                  !.command_version = remoteVersion + 1,
                                  !.calls = @ \o <<"update_doc_content">>]
       ELSE /\ UNCHANGED <<remoteVersion, remoteRevision>>
            /\ cmd' = [Fail(IF cmd.name \in HookCmds THEN "swallowed" ELSE "backend")
                         EXCEPT !.calls = @ \o <<"update_doc_content">>]
    /\ hist' = HistOnStep(cmd')
    /\ UNCHANGED <<remoteComments, now, stateFile>>
    /\ UNCHANGED side

\* the read-only body of cat, info, tabs, pull, diff and the pull hook
ReadBody(ok, version_known, file_ok) ==
    /\ cmd.pc = "body"
    /\ cmd.name \notin {"info", "pull", "pull-hook"} => version_known
    /\ cmd.name # "diff" => file_ok
    /\ cmd' =
         IF ~ok
         THEN [Fail(IF cmd.name \in HookCmds THEN "swallowed" ELSE "backend")
                 EXCEPT !.calls = @ \o <<"export_doc">>]
         ELSE IF ~file_ok
         THEN [Fail("validation") EXCEPT !.calls = @ \o <<"export_doc">>]
         ELSE IF cmd.name \in {"info", "pull", "pull-hook"}
         THEN [Advance(cmd) EXCEPT
                          !.command_version = Answer(version_known),
                          !.calls = @ \o <<"export_doc", "get_file_info">>]
         ELSE [Advance(cmd) EXCEPT !.calls = @ \o <<"export_doc">>]
    /\ hist' = HistOnStep(cmd')
    /\ UNCHANGED <<remoteVersion, remoteRevision, remoteComments, now,
                   stateFile>>
    /\ UNCHANGED side

\* the pull hook's own version check: nothing to do when last_version is current
HookVersionCheck(ok, version_known) ==
    /\ cmd.pc = "hookversion"
    /\ LET state == load_state(stateFile)
       IN  cmd' =
             IF ~ok
             THEN [Fail("swallowed") EXCEPT !.calls = @ \o <<"get_file_version">>]
             ELSE IF state.exists /\ state.st.last_version = Answer(version_known)
             THEN [Fail("skipped") EXCEPT !.calls = @ \o <<"get_file_version">>]
             ELSE [Advance(cmd) EXCEPT !.calls = @ \o <<"get_file_version">>]
    /\ hist' = HistOnStep(cmd')
    /\ UNCHANGED <<remoteVersion, remoteRevision, remoteComments, now,
                   stateFile>>
    /\ UNCHANGED side

\* cmd_edit: fetch the document, locate the matches, validate them
FetchDocument(ok, matches, replace_all, insert_ops, has_tables) ==
    /\ cmd.pc = "fetch"
    /\ cmd' =
         IF ~ok THEN [Fail("backend") EXCEPT !.calls = @ \o <<"get_document">>]
         ELSE IF \/ matches = 0
                 \/ ~replace_all /\ matches > 1
                 \/ has_tables /\ matches > 1
         THEN [Fail("validation") EXCEPT !.calls = @ \o <<"get_document">>]
         ELSE [Advance(cmd) EXCEPT
                          !.revision_id = remoteRevision,
                          !.nmatches = matches,
                          !.nops = matches * (1 + insert_ops),
                          !.calls = @ \o <<"get_document">>]
    /\ hist' = HistOnStep(cmd')
    /\ UNCHANGED <<remoteVersion, remoteRevision, remoteComments, now,
                   stateFile>>
    /\ UNCHANGED side

\* replace_formatted: the one main batchUpdate with its required revision
SubmitBatch(ok) ==
    /\ cmd.pc = "batch"
    /\ ok => remoteVersion < MaxVersion
    /\ LET required == required_revision(cmd.revision_id)
           sent == [cmd EXCEPT !.submitted = @ + 1,
                               !.required = required,
                               !.rev_at_submit = remoteRevision,
                               !.calls = @ \o <<"batchUpdate">>]
       IN  IF ok /\ RemoteAccepts(required, remoteRevision)
           THEN /\ cmd' = [Advance(sent) EXCEPT !.applied = cmd.nops]
                /\ remoteVersion' = remoteVersion + 1
                /\ remoteRevision' = remoteRevision + 1
           ELSE /\ cmd' = [sent EXCEPT !.pc = "done", !.outcome = "backend",
                                       !.nmatches = 0, !.info = NoInfo]
                /\ UNCHANGED <<remoteVersion, remoteRevision>>
    /\ hist' = HistOnStep(cmd')
    /\ UNCHANGED <<remoteComments, now, stateFile>>
    /\ UNCHANGED side

\* variant of CleanupAndTables: an error of the cleanup or table step is
\* swallowed
CleanupAndTables_swallowed(ok, changes) ==
    /\ cmd.pc = "cleanup"
    /\ changes => remoteVersion < MaxVersion
    /\ cmd' = IF ok THEN [Advance(cmd) EXCEPT !.calls = @ \o <<"documents.get">>]
              ELSE [Advance(cmd) EXCEPT
                      !.calls = @ \o <<"documents.get", "HttpError">>]
    /\ remoteVersion' = IF changes THEN remoteVersion + 1 ELSE remoteVersion
    /\ remoteRevision' = IF changes THEN remoteRevision + 1 ELSE remoteRevision
    /\ hist' = HistOnStep(cmd')
    /\ UNCHANGED <<remoteComments, now, stateFile>>
    /\ UNCHANGED side

\* replace_formatted: the cleanup batch and the table insertions; the step
\* may fail after requests of its own went through (a table is inserted in
\* several calls), and the log of calls notes the HttpError
CleanupAndTables(ok, changes) ==
    /\ cmd.pc = "cleanup"
    /\ changes => remoteVersion < MaxVersion
    /\ cmd' = IF ok THEN [Advance(cmd) EXCEPT !.calls = @ \o <<"documents.get">>]
              ELSE [Fail("backend") EXCEPT
                      !.calls = @ \o <<"documents.get", "HttpError">>]
    /\ remoteVersion' = IF changes THEN remoteVersion + 1 ELSE remoteVersion
    /\ remoteRevision' = IF changes THEN remoteRevision + 1 ELSE remoteRevision
    /\ hist' = HistOnStep(cmd')
    /\ UNCHANGED <<remoteComments, now, stateFile>>
    /\ UNCHANGED side

\* the remote effect of comment, reply, resolve, reopen and delete-comment
MutateComment(ok, id) ==
    /\ cmd.pc = "mutate"
    /\ IF cmd.name = "comment"
       THEN ok => remoteComments[id].status = "absent"
       ELSE id = cmd.target
    /\ LET exists == remoteComments[id].status # "absent"
           status == CASE cmd.name = "resolve" -> "resolved"
                       [] cmd.name = "reopen" -> "open"
                       [] cmd.name = "delete-comment" -> "absent"
                       [] cmd.name = "comment" -> "open"
                       [] OTHER -> remoteComments[id].status
       IN  IF ok /\ (cmd.name = "comment" \/ exists)
           THEN /\ remoteComments' =
                     [remoteComments EXCEPT ![id] = [status |-> status, mtime |-> now]]
                /\ cmd' = [Advance(cmd) EXCEPT !.target = id,
                                               !.calls = @ \o <<"comments">>]
           ELSE /\ UNCHANGED remoteComments
                /\ cmd' = [Fail("backend") EXCEPT !.calls = @ \o <<"comments">>]
    /\ hist' = HistOnStep(cmd')
    /\ UNCHANGED <<remoteVersion, remoteRevision, now, stateFile>>
    /\ UNCHANGED side

\* get_file_version after the command's own work
PostVersion(ok, version_known) ==
    /\ cmd.pc = "post"
    /\ cmd' = IF ok THEN [Advance(cmd) EXCEPT
                                     !.command_version = Answer(version_known),
                                     !.calls = @ \o <<"get_file_version">>]
              ELSE [Fail("backend") EXCEPT !.calls = @ \o <<"get_file_version">>]
    /\ hist' = HistOnStep(cmd')
    /\ UNCHANGED <<remoteVersion, remoteRevision, remoteComments, now,
                   stateFile>>
    /\ UNCHANGED side

\* the handler's last step: update_state_after_command, then return
UpdateState ==
    /\ cmd.pc = "update"
    /\ stateFile' = update_state_after_command(
                        stateFile, cmd.info, StateCommand(cmd.name), cmd.quiet,
                        cmd.command_version,
                        comment_state_patch(cmd.name, cmd.target), now)
    /\ cmd' = Advance(cmd)
    /\ hist' = HistOnUpdate(stateFile')
    /\ UNCHANGED <<remoteVersion, remoteRevision, remoteComments, now>>
    /\ UNCHANGED side

\* the process exits; the next invocation starts from scratch
Return ==
    /\ cmd.pc = "done"
    /\ cmd' = IdleCmd
    /\ UNCHANGED <<remoteVersion, remoteRevision, remoteComments, now, stateFile,
                   hist>>
    /\ UNCHANGED side

\* ---- the environment: other editors --------------------------------------
\* (they act while an invocation runs or between invocations; "done" is the
\* instant of return; Spec holds the clock still, so every timestamp taken
\* is the same instant)
OtherEdit ==
    /\ cmd.pc # "done"
    /\ remoteVersion < MaxVersion
    /\ remoteVersion' = remoteVersion + 1
    /\ remoteRevision' = remoteRevision + 1
    /\ hist' = NoHist
    /\ UNCHANGED <<remoteComments, now, stateFile, cmd>>
    /\ UNCHANGED side

OtherComment(id, status) ==
    /\ cmd.pc # "done"
    /\ remoteComments[id].status # status
    /\ remoteComments' = [remoteComments EXCEPT ![id] = [status |-> status, mtime |-> now]]
    /\ UNCHANGED <<remoteVersion, remoteRevision, now, stateFile, cmd, hist>>
    /\ UNCHANGED side

Next ==
    \/ \E name \in Commands, quiet \in BOOLEAN, force \in BOOLEAN,
          target \in CommentIds \cup {NoId}, local_ok \in BOOLEAN :
          Start(name, quiet, force, target, local_ok)
    \/ \E ok \in BOOLEAN, version_known \in BOOLEAN : PreFlight(ok, version_known)
    \/ \E ok \in BOOLEAN, version_known \in BOOLEAN :
          CheckWriteConflict(ok, version_known)
    \/ \E ok \in BOOLEAN : UpdateDocContent(ok)
    \/ \E ok \in BOOLEAN, version_known \in BOOLEAN, file_ok \in BOOLEAN :
          ReadBody(ok, version_known, file_ok)
    \/ \E ok \in BOOLEAN, version_known \in BOOLEAN : HookVersionCheck(ok, version_known)
    \/ \E ok \in BOOLEAN, matches \in 0..MaxMatches, replace_all \in BOOLEAN,
          insert_ops \in 0..MaxInsertOps, has_tables \in BOOLEAN :
          FetchDocument(ok, matches, replace_all, insert_ops, has_tables)
    \/ \E ok \in BOOLEAN : SubmitBatch(ok)
    \/ \E ok \in BOOLEAN, changes \in BOOLEAN : CleanupAndTables(ok, changes)
    \/ \E ok \in BOOLEAN, id \in CommentIds : MutateComment(ok, id)
    \/ \E ok \in BOOLEAN, version_known \in BOOLEAN : PostVersion(ok, version_known)
    \/ UpdateState
    \/ Return
    \/ OtherEdit
    \/ \E id \in CommentIds, status \in {"absent", "open", "resolved"} :
          OtherComment(id, status)

Spec == Init /\ [][Next]_vars

TypeOK ==
    /\ remoteVersion \in Versions
    /\ now = 1
    /\ stateFile.exists \in BOOLEAN

\* ---- properties ----------------------------------------------------------
Issued(api) == \E i \in 1..Len(cmd.calls) : cmd.calls[i] = api

\* the DocState a state update starts from
Loaded == IF stateFile.exists THEN stateFile.st ELSE DocState0

\* the step that runs update_state_after_command
Updating == cmd.pc = "update" /\ cmd'.pc # "update"

NoReadBaseline == ~cmd.had_state \/ cmd.baseline = None

VersionDiffers == cmd.observed # None /\ cmd.observed # cmd.baseline

\* C1: a write or push without --force that has no read baseline, or whose
\* pre-check observed a remote version other than last_read_version, never
\* issues update_doc_content and, once the pre-check has decided, ends in a
\* conflict error; quiet or not.
C1_OverwriteBlocked ==
    (/\ cmd.name \in OverwriteCmds
     /\ cmd.pc # "idle"
     /\ ~cmd.force
     /\ NoReadBaseline \/ VersionDiffers)
    => /\ ~Issued("update_doc_content")
       /\ cmd.pc \in {"check", "done"}
       /\ cmd.outcome # "ok"
       /\ cmd.checked => cmd.pc = "done" /\ cmd.outcome = "conflict"

C1_Witness ==
    /\ cmd.name \in OverwriteCmds
    /\ cmd.quiet /\ ~cmd.force
    /\ cmd.had_state /\ cmd.baseline # None
    /\ VersionDiffers
    /\ cmd.outcome = "conflict"

C3_StateOnlyAfterSuccess ==
    [][stateFile' # stateFile =>
          cmd.pc = "update" /\ cmd'.pc = "done" /\ cmd'.outcome = "ok"]_vars

C3_Witness ==
    /\ cmd.name = "edit"
    /\ cmd.outcome = "backend"
    /\ cmd.applied > 0
    /\ stateFile.exists
    /\ stateFile.st.last_version # remoteVersion

\* C4 as stated: after a read, a successful edit or write of this client
\* and no third-party edit, the pre-flight of the next read computes
\* has_conflict = false.
C4_OwnWriteNoConflict == hist.phase = 3 => ~hist.conflict

\* C4 as amended: in that sequence the second read's pre-flight reports
\* doc_edited = false when the write recorded its post-mutation version,
\* while has_conflict is still computed against the baseline the first read
\* saved (the write does not advance last_read_version).
C4_OwnWriteNotAnnounced ==
    hist.phase = 3 =>
        /\ hist.recorded => ~hist.doc_edited
        /\ hist.conflict <=>
              /\ hist.current # None
              /\ hist.baseline = None \/ hist.current # hist.baseline

C4_Witness ==
    /\ hist.phase = 3
    /\ hist.recorded
    /\ hist.baseline # None
    /\ hist.conflict
    /\ ~hist.doc_edited

\* C5: every saved DocState has known_resolved_ids \subseteq known_comment_ids,
\* whatever the command, quiet or not, with or without pre-flight data and
\* comment-state patch.
C5_ResolvedSubsetKnown ==
    stateFile.exists =>
        stateFile.st.known_resolved_ids \subseteq stateFile.st.known_comment_ids

C5_Witness ==
    /\ cmd.name = "resolve" /\ ~cmd.quiet /\ cmd.outcome = "ok"
    /\ stateFile.st.known_comment_ids = {"c1"}
    /\ stateFile.st.known_resolved_ids = {"c1"}

\* C6 as stated: a quiet state update leaves last_version and
\* last_read_version as they were, except that a quiet info carrying its own
\* version sets both to it.
C6_QuietFreezesVersions ==
    [][(Updating /\ cmd.quiet) =>
          IF StateCommand(cmd.name) = "info" /\ cmd.command_version # None
          THEN /\ stateFile'.st.last_version = cmd.command_version
               /\ stateFile'.st.last_read_version = cmd.command_version
          ELSE /\ stateFile'.st.last_version = Loaded.last_version
               /\ stateFile'.st.last_read_version = Loaded.last_read_version]_vars

\* C6 as amended: a quiet state update of a command other than info leaves
\* last_read_version as it was and leaves last_version as it was unless the
\* command supplies a version of its own, which then becomes last_version; a
\* quiet info carrying its own version sets both fields to it.
C6_QuietVersions ==
    [][(Updating /\ cmd.quiet) =>
          IF StateCommand(cmd.name) = "info" /\ cmd.command_version # None
          THEN /\ stateFile'.st.last_version = cmd.command_version
               /\ stateFile'.st.last_read_version = cmd.command_version
          ELSE /\ stateFile'.st.last_read_version = Loaded.last_read_version
               /\ stateFile'.st.last_version =
                     IF cmd.command_version # None THEN cmd.command_version
                     ELSE Loaded.last_version]_vars

C6_Witness ==
    /\ cmd.name = "edit" /\ cmd.quiet /\ cmd.outcome = "ok"
    /\ cmd.command_version # None
    /\ cmd.baseline # None
    /\ stateFile.st.last_version = cmd.command_version
    /\ stateFile.st.last_read_version = cmd.baseline
    /\ stateFile.st.last_version # stateFile.st.last_read_version

\* C7: an edit or write that supplies a post-mutation version saves it as
\* last_version, quiet or not.
C7_PostMutationVersionSaved ==
    [][(Updating /\ cmd.name \in {"edit", "write"} /\ cmd.command_version # None)
          => stateFile'.st.last_version = cmd.command_version]_vars

C7_Witness ==
    /\ cmd.name = "edit" /\ ~cmd.quiet /\ cmd.outcome = "ok"
    /\ cmd.observed # None
    /\ cmd.command_version # None
    /\ cmd.command_version # cmd.observed
    /\ stateFile.st.last_version = cmd.command_version

\* C8: the state update of an edit or write leaves last_read_version as it
\* was, whatever the quiet flag, the pre-flight data and the post-mutation
\* version.
C8_WriteKeepsReadVersion ==
    [][(Updating /\ cmd.name \in {"edit", "write"})
          => stateFile'.st.last_read_version = Loaded.last_read_version]_vars

C8_Witness ==
    /\ cmd.name = "write" /\ ~cmd.quiet /\ cmd.outcome = "ok"
    /\ cmd.baseline # None
    /\ stateFile.st.last_read_version = cmd.baseline
    /\ stateFile.st.last_version # cmd.baseline

\* C9: a non-quiet state update whose pre-flight observed version v saves
\* last_version = v and last_read_version = v for cat and info, and
\* last_version = v with last_read_version as it was for any other command
\* that supplies no version of its own.
C9_NonQuietVersions ==
    [][(/\ Updating
        /\ ~cmd.quiet
        /\ cmd.info.present
        /\ cmd.info.current_version # None) =>
          /\ cmd.name \in ReadCmds =>
                /\ stateFile'.st.last_version = cmd.info.current_version
                /\ stateFile'.st.last_read_version = cmd.info.current_version
          /\ (cmd.name \notin ReadCmds /\ cmd.command_version = None) =>
                /\ stateFile'.st.last_version = cmd.info.current_version
                /\ stateFile'.st.last_read_version = Loaded.last_read_version]_vars

C9_Witness ==
    /\ cmd.name = "tabs" /\ ~cmd.quiet /\ cmd.outcome = "ok"
    /\ cmd.observed # None
    /\ cmd.baseline # None
    /\ cmd.observed # cmd.baseline
    /\ stateFile.st.last_version = cmd.observed
    /\ stateFile.st.last_read_version = cmd.baseline

\* the ids a comment-state patch names
PatchIds(p) ==
    {p.add_comment_id, p.add_resolved_id, p.remove_resolved_id, p.remove_comment_id}
        \ {NoId}

\* C10: a quiet state update leaves last_comment_check as it was and changes
\* the membership of no id in known_comment_ids or known_resolved_ids other
\* than the ids its comment-state patch names.
C10_QuietKeepsCommentState ==
    [][(Updating /\ cmd.quiet) =>
          /\ stateFile'.st.last_comment_check = Loaded.last_comment_check
          /\ \A id \in CommentIds \ PatchIds(comment_state_patch(cmd.name, cmd.target)) :
                /\ id \in stateFile'.st.known_comment_ids
                      <=> id \in Loaded.known_comment_ids
                /\ id \in stateFile'.st.known_resolved_ids
                      <=> id \in Loaded.known_resolved_ids]_vars

C10_Witness ==
    /\ cmd.name = "cat" /\ cmd.quiet /\ cmd.outcome = "ok"
    /\ remoteComments["c1"].status = "resolved"
    /\ cmd.had_state
    /\ stateFile.st.last_comment_check = NoTime
    /\ stateFile.st.known_comment_ids = {}

\* the id sets a state update has before its patch: the pre-flight's merged
\* sets, or the prior sets when there is no pre-flight data
BulkIds ==
    IF ~cmd.quiet /\ cmd.info.present
    THEN [known |-> IF cmd.info.all_comment_ids # {}
                    THEN cmd.info.all_comment_ids ELSE Loaded.known_comment_ids,
          resolved |-> cmd.info.all_resolved_ids]
    ELSE [known |-> Loaded.known_comment_ids,
          resolved |-> Loaded.known_resolved_ids]

Ids(x) == {x} \ {NoId}

Count(api) == Cardinality({i \in 1..Len(cmd.calls) : cmd.calls[i] = api})

MutatingCalls == {"batchUpdate", "update_doc_content", "comments"}

WatchCmds == {"cat", "tabs"} \cup CommentCmds

WatchIdle ==
    [pc |-> "idle", name |-> "cat", target |-> NoId, ts |-> NoTime, info |-> NoInfo]

InitWatch ==
    /\ remoteVersion = 1
    /\ remoteRevision = 1
    /\ remoteComments = [c \in CommentIds |-> [status |-> "absent", mtime |-> NoTime]]
    /\ now = 1
    /\ stateFile = NoState
    /\ cmd = IdleCmd
    /\ hist = NoHist
    /\ watch = WatchIdle
    /\ search = Unused
    /\ edits = Unused
    /\ disk = Unused
    /\ MoreUnused

WatchFrame == UNCHANGED <<remoteVersion, remoteRevision, cmd, hist, search, edits, disk, more>>

WatchTick ==
    /\ now < MaxClock
    /\ now' = now + 1
    /\ UNCHANGED <<remoteComments, stateFile, watch>>
    /\ WatchFrame

\* somebody else creates, resolves, reopens or deletes a comment
WatchOtherComment(id, status) ==
    /\ remoteComments[id].status # status
    /\ remoteComments' = [remoteComments EXCEPT ![id] = [status |-> status, mtime |-> now]]
    /\ UNCHANGED <<now, stateFile, watch>>
    /\ WatchFrame

\* pre_flight, up to the timestamp: preflight_ts = datetime.now(...)
WatchCapture(name, target) ==
    /\ watch.pc = "idle"
    /\ (target # NoId) <=> (name \in CommentCmds \ {"comment"})
    /\ watch' = [WatchIdle EXCEPT !.pc = "list", !.name = name, !.target = target,
                                  !.ts = now]
    /\ UNCHANGED <<remoteComments, now, stateFile>>
    /\ WatchFrame

\* pre_flight, from the comment listing on
WatchList(ok) ==
    /\ watch.pc = "list"
    /\ watch' = IF ok
                THEN [watch EXCEPT
                        !.pc = "body",
                        !.info = pre_flight(stateFile, remoteVersion, remoteComments,
                                            watch.ts)]
                ELSE WatchIdle
    /\ UNCHANGED <<remoteComments, now, stateFile>>
    /\ WatchFrame

\* the command's own work; a comment command changes its comment
WatchBody(ok, id) ==
    /\ watch.pc = "body"
    /\ IF watch.name = "comment"
       THEN ok => remoteComments[id].status = "absent"
       ELSE id = IF watch.name \in CommentCmds THEN watch.target ELSE "c1"
    /\ LET status == CASE watch.name = "resolve" -> "resolved"
                       [] watch.name = "reopen" -> "open"
                       [] watch.name = "delete-comment" -> "absent"
                       [] watch.name = "comment" -> "open"
                       [] OTHER -> remoteComments[id].status
           found == watch.name = "comment" \/ remoteComments[id].status # "absent"
       IN  IF watch.name \notin CommentCmds
           THEN /\ watch' = IF ok THEN [watch EXCEPT !.pc = "update"] ELSE WatchIdle
                /\ UNCHANGED remoteComments
           ELSE IF ok /\ found
           THEN /\ remoteComments' =
                     [remoteComments EXCEPT ![id] = [status |-> status, mtime |-> now]]
                /\ watch' = [watch EXCEPT !.pc = "update", !.target = id]
           ELSE /\ watch' = WatchIdle
                /\ UNCHANGED remoteComments
    /\ UNCHANGED <<now, stateFile>>
    /\ WatchFrame

WatchUpdate ==
    /\ watch.pc = "update"
    /\ stateFile' = update_state_after_command(
                        stateFile, watch.info, watch.name, FALSE, None,
                        comment_state_patch(watch.name, watch.target), now)
    /\ watch' = WatchIdle
    /\ UNCHANGED <<remoteComments, now>>
    /\ WatchFrame

NextWatch ==
    \/ WatchTick
    \/ \E id \in CommentIds, status \in {"absent", "open", "resolved"} :
          WatchOtherComment(id, status)
    \/ \E name \in WatchCmds, target \in CommentIds \cup {NoId} :
          WatchCapture(name, target)
    \/ \E ok \in BOOLEAN : WatchList(ok)
    \/ \E ok \in BOOLEAN, id \in CommentIds : WatchBody(ok, id)
    \/ WatchUpdate

SpecWatch == InitWatch /\ [][NextWatch]_<<vars, side>>

\* the saved state has this comment as the remote has it
KnownAsIs(c) ==
    /\ c \in stateFile.st.known_comment_ids
    /\ c \in stateFile.st.known_resolved_ids <=> remoteComments[c].status = "resolved"

\* C11: the saved watermark is the instant taken before the comment listing,
\* so at every moment each remote comment is either recorded in the saved
\* state as it is now, or was modified at or after the watermark and is
\* returned by the next pre-flight's time-filtered listing.
C11_NoCommentMissed ==
    stateFile.exists =>
        /\ stateFile.st.last_comment_check <= stateFile.st.last_seen
        /\ \A c \in CommentIds :
              remoteComments[c].status # "absent" =>
                  \/ KnownAsIs(c)
                  \/ c \in list_comments(remoteComments,
                                         stateFile.st.last_comment_check)

\* a comment that appeared after the timestamp was taken and before the save
C11_Witness ==
    /\ watch.pc = "idle"
    /\ stateFile.exists
    /\ remoteComments["c1"].status = "open"
    /\ "c1" \notin stateFile.st.known_comment_ids
    /\ stateFile.st.last_comment_check # NoTime
    /\ stateFile.st.last_comment_check < remoteComments["c1"].mtime
    /\ remoteComments["c1"].mtime < stateFile.st.last_seen

\* ---- docs.py: find_text_in_document ------------------------------------
\* A document body is its text, the characters of its text runs in order,
\* and at most one element without a text run (an inline object, a break)
\* that takes one index after the gap-th character (gap = 0: none). The body
\* starts at index 1.
Alphabet == {"a", "A", "b"}

Strings(min, max) == UNION {[1..k -> Alphabet] : k \in min..max}

\* startIndex + i of the text run the n-th character is in
doc_indices(doc, n) == IF doc.gap # 0 /\ n > doc.gap THEN n + 1 ELSE n

lower(ch) == IF ch = "A" THEN "a" ELSE ch

\* search_text / search_in: lower-cased unless match_case
fold(str, match_case) ==
    IF match_case THEN str ELSE [i \in 1..Len(str) |-> lower(str[i])]

OccursAt(str, sub, p) ==
    /\ p + Len(sub) - 1 <= Len(str)
    /\ \A i \in 1..Len(sub) : str[p + i - 1] = sub[i]

str_find_after(str, sub, start) ==
    LET found == {p \in (start + 1)..Len(str) : OccursAt(str, sub, p)}
    IN  IF found = {} THEN 0 ELSE CHOOSE p \in found : \A q \in found : p <= q

\* str.find(sub, start), positions counted from 1, 0 for "not found"
str_find(str, sub, start) ==
    LET found == {p \in start..Len(str) : OccursAt(str, sub, p)}
    IN  IF found = {} THEN 0 ELSE CHOOSE p \in found : \A q \in found : p <= q

\* the while loop: every position find returns, the next search starting one
\* character after the last hit
RECURSIVE find_loop(_, _, _)
find_loop(search_in, search_text, start) ==
    LET pos == str_find(search_in, search_text, start)
    IN  IF pos = 0 THEN <<>>
        ELSE <<pos>> \o find_loop(search_in, search_text, pos + 1)

find_text_in_document(doc, text, match_case) ==
    IF doc.text = <<>> THEN <<>>
    ELSE LET hits == find_loop(fold(doc.text, match_case), fold(text, match_case), 1)
         IN  [k \in 1..Len(hits) |->
                 [startIndex |-> doc_indices(doc, hits[k]),
                  endIndex |-> doc_indices(doc, hits[k] + Len(text) - 1) + 1]]

RECURSIVE Repeat(_, _, _)
Repeat(needle, sep, n) ==
    IF n = 1 THEN needle ELSE needle \o sep \o Repeat(needle, sep, n - 1)

\* any document with any needle (copies = 0), and the documents that are
\* copies of the needle with a separator between them
SearchInput(text, gap, needle, match_case, copies, sep) ==
    [pc |-> "input", doc |-> [text |-> text, gap |-> gap], needle |-> needle,
     match_case |-> match_case, copies |-> copies, sep |-> sep, matches |-> <<>>]

\* the inputs: any text and needle, and texts made of copies of the needle
SearchInputs(input) ==
    \/ \E t \in Strings(0, MaxDocLen), g \in 0..MaxDocLen,
          n \in Strings(1, MaxNeedle), mc \in BOOLEAN :
            input = SearchInput(t, g, n, mc, 0, <<>>)
    \/ \E n \in Strings(1, MaxNeedle), sp \in Strings(1, MaxSep),
          c \in 1..MaxCopies, g \in 0..(MaxNeedle + MaxSep), mc \in BOOLEAN :
            input = SearchInput(Repeat(n, sp, c), g, n, mc, c, sp)

InitSearch ==
    /\ remoteVersion = 1
    /\ remoteRevision = 1
    /\ remoteComments = [c \in CommentIds |-> [status |-> "absent", mtime |-> NoTime]]
    /\ now = 1
    /\ stateFile = NoState
    /\ cmd = IdleCmd
    /\ hist = NoHist
    /\ watch = Unused
    /\ SearchInputs(search)
    /\ search.doc.gap < Len(search.doc.text) \/ search.doc.gap = 0
    /\ edits = Unused
    /\ disk = Unused
    /\ MoreUnused

SearchFind ==
    /\ search.pc = "input"
    /\ search' = [search EXCEPT
                    !.pc = "found",
                    !.matches = find_text_in_document(search.doc, search.needle,
                                                      search.match_case)]
    /\ UNCHANGED <<vars, watch, edits, disk, more>>

NextSearch == SearchFind

SpecSearch == InitSearch /\ [][NextSearch]_<<vars, side>>

\* C13 as stated: consecutive spans of the match locator do not overlap.
C13_SpansDisjoint ==
    search.pc = "found" =>
        \A k \in 1..(Len(search.matches) - 1) :
            search.matches[k + 1].startIndex >= search.matches[k].endIndex

CopyOffsets ==
    {1 + k * (Len(search.needle) + Len(search.sep)) : k \in 0..(search.copies - 1)}

\* the needle, compared as the search compares, occurs at the copies only
OnlyTheCopies ==
    {p \in 1..Len(search.doc.text) :
        OccursAt(fold(search.doc.text, search.match_case),
                 fold(search.needle, search.match_case), p)} = CopyOffsets

\* no element without text sits inside a copy
CopiesUnbroken ==
    \A p \in CopyOffsets :
        search.doc.gap = 0 \/ search.doc.gap < p
            \/ search.doc.gap >= p + Len(search.needle) - 1

EditDocLen == MaxMatches * MaxMatchLen + 2

Spans(len) ==
    {[startIndex |-> a, endIndex |-> a + len] : a \in 1..(EditDocLen - len)}

MatchLists ==
    UNION {
      {ms \in [1..n -> Spans(len)] :
          \A i, j \in 1..n :
              i # j => \/ ms[i].endIndex <= ms[j].startIndex
                       \/ ms[j].endIndex <= ms[i].startIndex} :
      n \in 1..MaxMatches, len \in 1..MaxMatchLen}

Without(seq, i) == SubSeq(seq, 1, i - 1) \o SubSeq(seq, i + 1, Len(seq))

RECURSIVE sorted_matches_ascending(_)
sorted_matches_ascending(matches) ==
    IF matches = <<>> THEN <<>>
    ELSE LET i == CHOOSE k \in 1..Len(matches) :
                    \A l \in 1..Len(matches) :
                        matches[l].startIndex >= matches[k].startIndex
         IN  <<matches[i]>> \o sorted_matches_ascending(Without(matches, i))

\* sorted(matches, key=startIndex, reverse=True)
RECURSIVE sorted_matches(_)
sorted_matches(matches) ==
    IF matches = <<>> THEN <<>>
    ELSE LET i == CHOOSE k \in 1..Len(matches) :
                    \A l \in 1..Len(matches) :
                        matches[l].startIndex <= matches[k].startIndex
         IN  <<matches[i]>> \o sorted_matches(Without(matches, i))

\* mdparse.to_docs_requests: the text insertion, then one request per style
\* range, every range offset by insert_index
to_docs_requests(parsed, insert_index) ==
    IF parsed.plain_len = 0 THEN <<>>
    ELSE <<[op |-> "insertText", startIndex |-> insert_index,
            endIndex |-> insert_index + parsed.plain_len]>>
         \o [k \in 1..parsed.nstyles |->
                [op |-> "updateTextStyle", startIndex |-> 0 + insert_index,
                 endIndex |-> parsed.plain_len + insert_index]]

\* the for loop over sorted_matches that fills all_requests
RECURSIVE all_requests(_, _)
all_requests(sorted, parsed) ==
    IF sorted = <<>> THEN <<>>
    ELSE <<[op |-> "deleteContentRange", startIndex |-> Head(sorted).startIndex,
            endIndex |-> Head(sorted).endIndex]>>
         \o to_docs_requests(parsed, Head(sorted).startIndex)
         \o all_requests(Tail(sorted), parsed)

adjusted_pos_from_bottom(match, j, n, plain_len, delta) ==
    match.startIndex + plain_len + j * delta

\* the cleanup position of the j-th match from the top (j counts from 0)
adjusted_pos(match, j, n, plain_len, delta) ==
    match.startIndex + plain_len + (n - 1 - j) * delta

\* the remote service applies the requests of a batch one after the other.
\* A body is the sequence of its characters: i for the character that was at
\* index i, -s for a character inserted by the request anchored at s.
ApplyRequest(body, req) ==
    IF req.startIndex > Len(body) + 1 THEN body
    ELSE CASE req.op = "deleteContentRange" ->
                SubSeq(body, 1, req.startIndex - 1)
                    \o SubSeq(body, req.endIndex, Len(body))
           [] req.op = "insertText" ->
                SubSeq(body, 1, req.startIndex - 1)
                    \o [k \in 1..(req.endIndex - req.startIndex) |-> 0 - req.startIndex]
                    \o SubSeq(body, req.startIndex, Len(body))
           [] OTHER -> body

RECURSIVE ApplyRequests(_, _)
ApplyRequests(body, reqs) ==
    IF reqs = <<>> THEN body
    ELSE ApplyRequests(ApplyRequest(body, Head(reqs)), Tail(reqs))

InitEdits ==
    /\ remoteVersion = 1
    /\ remoteRevision = 1
    /\ remoteComments = [c \in CommentIds |-> [status |-> "absent", mtime |-> NoTime]]
    /\ now = 1
    /\ stateFile = NoState
    /\ cmd = IdleCmd
    /\ hist = NoHist
    /\ watch = Unused
    /\ search = Unused
    /\ edits \in {[pc |-> "input", matches |-> ms,
                   parsed |-> [plain_len |-> r, nstyles |-> ns],
                   requests |-> <<>>, body |-> [i \in 1..EditDocLen |-> i]] :
                     ms \in MatchLists, r \in 0..MaxPlainLen, ns \in 0..MaxInsertOps}
    /\ disk = Unused
    /\ MoreUnused

\* replace_formatted up to the main batch's request list
EditsBuild ==
    /\ edits.pc = "input"
    /\ edits' = [edits EXCEPT
                   !.pc = "built",
                   !.requests = all_requests(sorted_matches(edits.matches),
                                             edits.parsed)]
    /\ UNCHANGED <<vars, watch, search, disk, more>>

\* the main batchUpdate goes through
EditsApply ==
    /\ edits.pc = "built"
    /\ edits' = [edits EXCEPT !.pc = "applied",
                              !.body = ApplyRequests(edits.body, edits.requests)]
    /\ UNCHANGED <<vars, watch, search, disk, more>>

NextEdits == EditsBuild \/ EditsApply

SpecEdits == InitEdits /\ [][NextEdits]_<<vars, side>>

\* the number of requests each match contributes to the main batch
BlockSize == 1 + Len(to_docs_requests(edits.parsed, 1))

AfterSite(body, match) ==
    1 + Cardinality({p \in 1..Len(body) :
                        \/ body[p] > 0 /\ body[p] < match.endIndex
                        \/ body[p] < 0 /\ 0 - body[p] <= match.startIndex})

Tok(t) == [t |-> t, k |-> "", ty |-> "", n |-> 0, ids |-> {}]

KV(k, ty, n, ids) == [t |-> "kv", k |-> k, ty |-> ty, n |-> n, ids |-> ids]

IntOrNull(v) == IF v = None THEN "null" ELSE "int"

\* json.dump(asdict(state), f)
json_dump(state) ==
    << Tok("{"),
       KV("last_seen", "str", state.last_seen, {}),
       KV("last_version", IntOrNull(state.last_version), state.last_version, {}),
       KV("last_read_version", IntOrNull(state.last_read_version),
          state.last_read_version, {}),
       KV("last_comment_check", "str", state.last_comment_check, {}),
       KV("known_comment_ids", "list", 0, state.known_comment_ids),
       KV("known_resolved_ids", "list", 0, state.known_resolved_ids),
       Tok("}") >>

NoItems == {}

\* json.load(f): a dict, a list, null, or JSONDecodeError
json_load(data) ==
    LET n == Len(data)
    IN  IF /\ n >= 2
           /\ data[1].t = "{"
           /\ data[n].t = "}"
           /\ \A i \in 2..(n - 1) : data[i].t = "kv"
        THEN [kind |-> "dict", items |-> {data[i] : i \in 2..(n - 1)}]
        ELSE IF n = 2 /\ data[1].t = "[" /\ data[2].t = "]"
        THEN [kind |-> "list", items |-> NoItems]
        ELSE IF n = 1 /\ data[1].t = "null"
        THEN [kind |-> "null", items |-> NoItems]
        ELSE [kind |-> "JSONDecodeError", items |-> NoItems]

\* DocState.__dataclass_fields__ and the annotated type of each field
Fields == DOMAIN DocState0

FieldTypes(k) ==
    CASE k \in {"last_seen", "last_comment_check"} -> {"str"}
      [] k \in {"last_version", "last_read_version"} -> {"int", "null"}
      [] OTHER -> {"list"}

\* DocState(**{k: v for k, v in data.items() if k in fields}): a key that is
\* missing takes the field's default; no value is checked against the type
FieldValue(items, k) ==
    IF \E kv \in items : kv.k = k
    THEN LET kv == CHOOSE x \in items : x.k = k
         IN  IF "list" \in FieldTypes(k) THEN kv.ids ELSE kv.n
    ELSE DocState0[k]

WellTyped(items) == \A kv \in items : kv.k \in Fields => kv.ty \in FieldTypes(kv.k)

LoadResult(kind, st, typed) == [kind |-> kind, st |-> st, well_typed |-> typed]

NoResult == LoadResult("-", DocState0, TRUE)

\* variant of load_state_file: every exception is caught
load_state_file_lenient(file) ==
    IF ~file.exists
    THEN LoadResult("None", DocState0, TRUE)
    ELSE LET data == json_load(file.data)
         IN  IF data.kind = "dict"
             THEN LoadResult("DocState",
                             [k \in Fields |-> FieldValue(data.items, k)],
                             WellTyped(data.items))
             ELSE LoadResult("None", DocState0, TRUE)

\* load_state on a file: None for a missing file and for JSONDecodeError
\* (caught); data.items() of a value that is no dict raises AttributeError,
\* which the except clause does not name
load_state_file(file) ==
    IF ~file.exists
    THEN LoadResult("None", DocState0, TRUE)
    ELSE LET data == json_load(file.data)
         IN  CASE data.kind = "JSONDecodeError" -> LoadResult("None", DocState0, TRUE)
               [] data.kind = "dict" ->
                     LoadResult("DocState",
                                [k \in Fields |-> FieldValue(data.items, k)],
                                WellTyped(data.items))
               [] OTHER -> LoadResult("AttributeError", DocState0, TRUE)

File(data) == [exists |-> TRUE, data |-> data]

NoFile == [exists |-> FALSE, data |-> <<>>]

\* how many times the process is killed during a save
MaxCrashes == 2

\* the snapshots save_state is called with
DiskStates ==
    {[DocState0 EXCEPT !.last_seen = 1, !.last_version = v, !.last_read_version = v,
                       !.known_comment_ids = ids] :
        v \in Versions, ids \in SUBSET CommentIds}

\* state files that no save_state wrote: an empty file, a truncated object,
\* a JSON array, a JSON null, an object with another key only, an object
\* whose last_version is a string
CorruptFiles ==
    { <<>>,
      SubSeq(json_dump(DocState0), 1, 3),
      <<Tok("["), Tok("]")>>,
      <<Tok("null")>>,
      <<Tok("{"), KV("title", "str", 1, {}), Tok("}")>>,
      <<Tok("{"), KV("last_version", "str", 1, {}), Tok("}")>> }

StateFiles ==
    {NoFile} \cup {File(json_dump(st)) : st \in DiskStates}
             \cup {File(d) : d \in CorruptFiles}

InitDisk ==
    /\ remoteVersion = 1
    /\ remoteRevision = 1
    /\ remoteComments = [c \in CommentIds |-> [status |-> "absent", mtime |-> NoTime]]
    /\ now = 1
    /\ stateFile = NoState
    /\ cmd = IdleCmd
    /\ hist = NoHist
    /\ watch = Unused
    /\ search = Unused
    /\ edits = Unused
    /\ disk \in {[pc |-> "idle", target |-> f, tmp |-> NoFile, left |-> 0,
                  old |-> f, new |-> DocState0, crashes |-> 0,
                  result |-> NoResult] : f \in StateFiles}
    /\ MoreUnused

DiskFrame == UNCHANGED <<vars, watch, search, edits, more>>

\* load_state(doc_id)
DiskLoad ==
    /\ disk.pc = "idle"
    /\ disk' = [disk EXCEPT !.pc = "loaded", !.result = load_state_file(disk.target)]
    /\ DiskFrame

\* the caller goes on (or the process ends with the exception)
DiskLoaded ==
    /\ disk.pc = "loaded"
    /\ disk' = [disk EXCEPT !.pc = "idle", !.result = NoResult]
    /\ DiskFrame

\* variant of fdopen_write: the snapshot is written to the target itself
fdopen_write_in_place(d, token) ==
    [d EXCEPT !.target = IF d.tmp.data = <<>> THEN File(<<token>>)
                         ELSE File(d.target.data \o <<token>>),
              !.tmp = File(d.tmp.data \o <<token>>)]

\* with os.fdopen(fd, "w") as f: json.dump(...): the text reaches the
\* temporary file piece by piece
fdopen_write(d, token) == [d EXCEPT !.tmp = File(d.tmp.data \o <<token>>)]

\* save_state: tempfile.mkstemp(dir=STATE_DIR, suffix=".tmp")
SaveMkstemp(state) ==
    /\ disk.pc = "idle"
    /\ disk' = [disk EXCEPT !.pc = "write", !.tmp = File(<<>>),
                            !.old = disk.target, !.new = state]
    /\ DiskFrame

SaveWrite ==
    /\ disk.pc = "write"
    /\ LET text == json_dump(disk.new)
           at == Len(disk.tmp.data) + 1
           d == fdopen_write(disk, text[at])
       IN  disk' = [d EXCEPT !.pc = IF at = Len(text) THEN "rename" ELSE "write"]
    /\ DiskFrame

\* os.rename(tmp_path, path)
SaveRename ==
    /\ disk.pc = "rename"
    /\ disk' = [disk EXCEPT !.pc = "renamed", !.target = disk.tmp, !.tmp = NoFile]
    /\ DiskFrame

SaveReturn ==
    /\ disk.pc = "renamed"
    /\ disk' = [disk EXCEPT !.pc = "idle"]
    /\ DiskFrame

\* except Exception: os.unlink(tmp_path); raise
SaveError ==
    /\ disk.pc \in {"write", "rename"}
    /\ disk' = [disk EXCEPT !.pc = "idle", !.tmp = NoFile]
    /\ DiskFrame

\* the process is killed: no handler runs, a temporary file stays behind
DiskCrash ==
    /\ disk.pc \in {"write", "rename", "renamed"}
    /\ disk.crashes < MaxCrashes
    /\ disk' = [disk EXCEPT !.pc = "crashed", !.tmp = NoFile,
                            !.left = IF disk.tmp.exists THEN @ + 1 ELSE @,
                            !.crashes = @ + 1]
    /\ DiskFrame

\* a later invocation of the program
DiskRestart ==
    /\ disk.pc = "crashed"
    /\ disk' = [disk EXCEPT !.pc = "idle"]
    /\ DiskFrame

NextDisk ==
    \/ DiskLoad
    \/ DiskLoaded
    \/ \E state \in DiskStates : SaveMkstemp(state)
    \/ SaveWrite
    \/ SaveRename
    \/ SaveReturn
    \/ SaveError
    \/ DiskCrash
    \/ DiskRestart

SpecDisk == InitDisk /\ [][NextDisk]_<<vars, side>>

\* C19: from the start of a save until the next command, a crash included,
\* the target state file holds either exactly what it held before the save or
\* the complete new snapshot (which loads back as the state that was saved),
\* never a part of one or a mix of both.
C19_SaveAtomic ==
    disk.pc \in {"write", "rename", "renamed", "crashed"} =>
        \/ disk.target = disk.old
        \/ /\ disk.target = File(json_dump(disk.new))
           /\ load_state_file(disk.target) = LoadResult("DocState", disk.new, TRUE)

\* killed in the middle of the write, over a complete earlier snapshot
C19_Witness ==
    /\ disk.pc = "crashed"
    /\ disk.left > 0
    /\ disk.target = disk.old
    /\ \E st \in DiskStates : st # disk.new /\ disk.old = File(json_dump(st))
    /\ disk.crashes = 2

\* the file matches the DocState schema: an object whose known keys hold
\* values of the fields' types
MatchesSchema(file) ==
    /\ file.exists
    /\ json_load(file.data).kind = "dict"
    /\ WellTyped(json_load(file.data).items)

\* C20: load_state never raises, and a state file that is malformed JSON or
\* does not match the DocState schema loads as no state.
C20_LoadNeverRaises ==
    disk.pc = "loaded" =>
        /\ disk.result.kind \in {"None", "DocState"}
        /\ ~MatchesSchema(disk.target) => disk.result.kind = "None"

\* ---- two invocations updating the state file of one document ------------
Procs == {1, 2}

\* variant of mkstemp: one fixed temporary name for every invocation
mkstemp_shared(p) == 1

\* tempfile.mkstemp: a name no other invocation has
mkstemp(p) == p

\* a write of one token at a file offset (a hole is filled with NULs)
WriteAt(data, off, token) ==
    [i \in 1..(IF off > Len(data) THEN off ELSE Len(data)) |->
        IF i = off THEN token
        ELSE IF i <= Len(data) THEN data[i] ELSE Tok("NUL")]

\* what an invocation runs: a quiet command with its own version
RaceCommands == {[command |-> c, version |-> v] : c \in {"info", "edit"}, v \in Versions}

InitRace ==
    /\ remoteVersion = 1
    /\ remoteRevision = 1
    /\ remoteComments = [c \in CommentIds |-> [status |-> "absent", mtime |-> NoTime]]
    /\ now = 1
    /\ stateFile = NoState
    /\ cmd = IdleCmd
    /\ hist = NoHist
    /\ watch = Unused
    /\ search = Unused
    /\ edits = Unused
    /\ disk = Unused
    /\ merge = Unused
    /\ md = Unused
    /\ replies = Unused
    /\ cleanup = Unused
    /\ \E f \in {NoFile} \cup {File(json_dump(st)) : st \in DiskStates},
          run \in [Procs -> RaceCommands] :
            race = [target |-> f, init |-> f, run |-> run,
                    tmp |-> [n \in Procs |-> NoFile],
                    pc |-> [p \in Procs |-> "start"],
                    st |-> [p \in Procs |-> DocState0],
                    off |-> [p \in Procs |-> 0],
                    last |-> 0]

RaceFrame == UNCHANGED <<vars, watch, search, edits, disk, merge, md, replies, cleanup>>

\* update_state_after_command up to save_state: load_state, then the fields
\* are set on the loaded copy
RaceLoad(p) ==
    /\ race.pc[p] = "start"
    /\ LET res == load_state_file(race.target)
           file == IF res.kind = "DocState" THEN [exists |-> TRUE, st |-> res.st]
                   ELSE NoState
           new == update_state_after_command(file, NoInfo, race.run[p].command, TRUE,
                                             race.run[p].version, NoPatch, p)
       IN  race' = [race EXCEPT !.pc[p] = "mkstemp", !.st[p] = new.st]
    /\ RaceFrame

RaceMkstemp(p) ==
    /\ race.pc[p] = "mkstemp"
    /\ race' = [race EXCEPT !.pc[p] = "write", !.tmp[mkstemp(p)] = File(<<>>),
                            !.off[p] = 0]
    /\ RaceFrame

RaceWrite(p) ==
    /\ race.pc[p] = "write"
    /\ LET text == json_dump(race.st[p])
           off == race.off[p] + 1
           name == mkstemp(p)
       IN  race' = [race EXCEPT
                      !.tmp[name] = File(WriteAt(race.tmp[name].data, off, text[off])),
                      !.off[p] = off,
                      !.pc[p] = IF off = Len(text) THEN "rename" ELSE "write"]
    /\ RaceFrame

\* os.rename(tmp_path, path); it raises when the temporary file is gone
RaceRename(p) ==
    /\ race.pc[p] = "rename"
    /\ LET name == mkstemp(p)
       IN  race' = IF race.tmp[name].exists
                   THEN [race EXCEPT !.pc[p] = "done", !.target = race.tmp[name],
                                     !.tmp[name] = NoFile, !.last = p]
                   ELSE [race EXCEPT !.pc[p] = "failed"]
    /\ RaceFrame

NextRace ==
    \E p \in Procs :
        \/ RaceLoad(p)
        \/ RaceMkstemp(p)
        \/ RaceWrite(p)
        \/ RaceRename(p)

SpecRace == InitRace /\ [][NextRace]_<<vars, side>>

\* C21: however two invocations interleave their load, modify and save
\* steps, the state file is at every moment what it was at the start or the
\* complete snapshot of the invocation that renamed its file last, and that
\* file loads back as exactly that invocation's state.
C21_LastWriterWins ==
    /\ race.last = 0 => race.target = race.init
    /\ race.last # 0 =>
          /\ race.target = File(json_dump(race.st[race.last]))
          /\ load_state_file(race.target)
                = LoadResult("DocState", race.st[race.last], TRUE)
    /\ \A p \in Procs : race.pc[p] # "failed"

\* both saved, the one that loaded first renamed last: the other's update
\* is lost as a whole
C21_Witness ==
    /\ \A p \in Procs : race.pc[p] = "done"
    /\ race.last = 1
    /\ race.run[1].command = "edit"
    /\ race.run[2].command = "info"
    /\ race.st[1].last_read_version # race.st[2].last_read_version
    /\ race.st[1].last_version # race.st[2].last_version
    /\ race.target = File(json_dump(race.st[1]))

\* ---- the id sets a steady-state pre-flight accumulates -------------------
\* Comment ids are 1..MaxIds here; 0 stands for a comment that carries no id.
MaxIds == 3
MaxListed == 2

ListedComments == [id : 0..MaxIds, resolved : BOOLEAN]

\* variant of merge_comment: an unresolved comment stays in the resolved set
merge_comment_keeps_resolved(acc, c) ==
    IF c.id = 0 THEN acc
    ELSE [all_ids |-> acc.all_ids \cup {c.id},
          all_resolved |-> IF c.resolved THEN acc.all_resolved \cup {c.id}
                           ELSE acc.all_resolved]

\* one round of the loop that builds all_ids and all_resolved
merge_comment(acc, c) ==
    IF c.id = 0 THEN acc
    ELSE [all_ids |-> acc.all_ids \cup {c.id},
          all_resolved |-> IF c.resolved THEN acc.all_resolved \cup {c.id}
                           ELSE acc.all_resolved \ {c.id}]

InitMerge ==
    /\ remoteVersion = 1
    /\ remoteRevision = 1
    /\ remoteComments = [c \in CommentIds |-> [status |-> "absent", mtime |-> NoTime]]
    /\ now = 1
    /\ stateFile = NoState
    /\ cmd = IdleCmd
    /\ hist = NoHist
    /\ watch = Unused
    /\ search = Unused
    /\ edits = Unused
    /\ disk = Unused
    /\ race = Unused
    /\ md = Unused
    /\ replies = Unused
    /\ cleanup = Unused
    /\ \E known \in SUBSET (1..MaxIds), n \in 0..MaxListed :
          \E res \in SUBSET known, comments \in [1..n -> ListedComments] :
            /\ \A i, j \in 1..n :
                  (i # j /\ comments[i].id # 0) => comments[i].id # comments[j].id
            /\ merge = [pc |-> "loop", known_comment_ids |-> known,
                        known_resolved_ids |-> res, comments |-> comments, i |-> 1,
                        acc |-> [all_ids |-> known, all_resolved |-> res],
                        all_comment_ids |-> {}, all_resolved_ids |-> {}]

MergeFrame == UNCHANGED <<vars, watch, search, edits, disk, race, md, replies, cleanup>>

\* for c in comments: ...
MergeIterate ==
    /\ merge.pc = "loop"
    /\ merge.i <= Len(merge.comments)
    /\ merge' = [merge EXCEPT !.acc = merge_comment(merge.acc, merge.comments[merge.i]),
                              !.i = merge.i + 1]
    /\ MergeFrame

\* info.all_comment_ids = sorted(all_ids); info.all_resolved_ids = ...
MergeDone ==
    /\ merge.pc = "loop"
    /\ merge.i > Len(merge.comments)
    /\ merge' = [merge EXCEPT !.pc = "done", !.all_comment_ids = merge.acc.all_ids,
                              !.all_resolved_ids = merge.acc.all_resolved]
    /\ MergeFrame

NextMerge == MergeIterate \/ MergeDone

SpecMerge == InitMerge /\ [][NextMerge]_<<vars, side>>

Listed == {merge.comments[i] : i \in 1..Len(merge.comments)}

\* C22: after a steady-state pre-flight, all_comment_ids is the known ids
\* together with every id of the listing, and all_resolved_ids is the known
\* resolved ids plus the listed comments that are resolved, minus the listed
\* comments that are unresolved.
C22_MergedIds ==
    merge.pc = "done" =>
        /\ merge.all_comment_ids
              = merge.known_comment_ids \cup {c.id : c \in {x \in Listed : x.id # 0}}
        /\ merge.all_resolved_ids
              = (merge.known_resolved_ids
                    \cup {c.id : c \in {x \in Listed : x.id # 0 /\ x.resolved}})
                \ {c.id : c \in {x \in Listed : x.id # 0 /\ ~x.resolved}}

\* a known resolved comment listed as unresolved, next to a new resolved one
C22_Witness ==
    /\ merge.pc = "done"
    /\ Len(merge.comments) = 2
    /\ \E i \in 1..2 :
          /\ merge.comments[i].id \in merge.known_resolved_ids
          /\ ~merge.comments[i].resolved
    /\ \E i \in 1..2 :
          /\ merge.comments[i].id \notin merge.known_comment_ids
          /\ merge.comments[i].id # 0
          /\ merge.comments[i].resolved
    /\ merge.all_resolved_ids # merge.known_resolved_ids
    /\ merge.all_resolved_ids # {}

\* ---- mdparse.py: inline constructs ---------------------------------------
\* A text is the sequence of its characters; offsets count from 0 as in the
\* source, so the character at offset i is text[i + 1], and a span is
\* [start, end).
MaxInlineLen == 7

At(text, i) == IF i >= 0 /\ i < Len(text) THEN text[i + 1] ELSE ""

\* text[a:b]
Slice(text, a, b) == IF b > a THEN SubSeq(text, a + 1, b) ELSE <<>>

RunAt(text, i, ch, n) == \A k \in 0..(n - 1) : At(text, i + k) = ch

\* the backtick character
Backtick == "BACKTICK"

NoMatch == [start |-> -1, end |-> -1, from |-> -1, to |-> -1]

\* n delimiter characters, a shortest inner text of at least one character,
\* n delimiter characters: \*\*(.+?)\*\* and the like
DelimAt(text, i, ch, n) ==
    IF ~RunAt(text, i, ch, n) THEN NoMatch
    ELSE LET ends == {e \in (i + n + 1)..(Len(text) - n) : RunAt(text, e, ch, n)}
         IN  IF ends = {} THEN NoMatch
             ELSE LET e == CHOOSE x \in ends : \A y \in ends : x <= y
                  IN  [start |-> i, end |-> e + n, from |-> i + n, to |-> e]

\* a single delimiter with no delimiter next to it on either side
LoneAt(text, i, ch) ==
    /\ At(text, i) = ch
    /\ At(text, i - 1) # ch
    /\ At(text, i + 1) # ch

\* (?<!\*)\*(?!\*)(.+?)(?<!\*)\*(?!\*)
ItalicAt(text, i, ch) ==
    IF ~LoneAt(text, i, ch) THEN NoMatch
    ELSE LET ends == {e \in (i + 2)..(Len(text) - 1) : LoneAt(text, e, ch)}
         IN  IF ends = {} THEN NoMatch
             ELSE LET e == CHOOSE x \in ends : \A y \in ends : x <= y
                  IN  [start |-> i, end |-> e + 1, from |-> i + 1, to |-> e]

\* the code pattern: a backtick, one or more characters that are no backtick,
\* a backtick
CodeAt(text, i) ==
    IF At(text, i) # Backtick THEN NoMatch
    ELSE LET ends == {e \in (i + 1)..(Len(text) - 1) : At(text, e) = Backtick}
         IN  IF ends = {} THEN NoMatch
             ELSE LET e == CHOOSE x \in ends : \A y \in ends : x <= y
                  IN  IF e = i + 1 THEN NoMatch
                      ELSE [start |-> i, end |-> e + 1, from |-> i + 1, to |-> e]

Either(a, b) == IF a # NoMatch THEN a ELSE b

\* the inline patterns in the order _parse_inline tries them
InlineKinds == <<"bold_italic", "bold", "italic", "code">>

MatchAt(kind, text, i) ==
    CASE kind = "bold_italic" -> DelimAt(text, i, "*", 3)
      [] kind = "bold" -> Either(DelimAt(text, i, "*", 2), DelimAt(text, i, "_", 2))
      [] kind = "italic" -> Either(ItalicAt(text, i, "*"), ItalicAt(text, i, "_"))
      [] OTHER -> CodeAt(text, i)

\* re.finditer: the leftmost match from pos on, then on from its end
RECURSIVE finditer(_, _, _)
finditer(kind, text, pos) ==
    LET starts == {i \in pos..(Len(text) - 1) : MatchAt(kind, text, i) # NoMatch}
    IN  IF starts = {} THEN <<>>
        ELSE LET i == CHOOSE x \in starts : \A y \in starts : x <= y
                 m == MatchAt(kind, text, i)
             IN  <<[m EXCEPT !.from = m.from] >> \o finditer(kind, text, m.end)

\* any(s[0] <= m.start() < s[1] or s[0] < m.end() <= s[1] for s in segments)
overlaps_claimed(segments, m) ==
    \E k \in 1..Len(segments) :
        \/ segments[k].start <= m.start /\ m.start < segments[k].end
        \/ segments[k].start < m.end /\ m.end <= segments[k].end

\* one for loop over a pattern's matches: a match is skipped or appended
RECURSIVE claim_matches(_, _, _)
claim_matches(segments, matches, kind) ==
    IF matches = <<>> THEN segments
    ELSE LET m == Head(matches)
             seg == [start |-> m.start, end |-> m.end, from |-> m.from,
                     to |-> m.to, kind |-> kind]
         IN  claim_matches(IF overlaps_claimed(segments, m) THEN segments
                           ELSE Append(segments, seg),
                           Tail(matches), kind)

RECURSIVE collect_segments(_, _, _)
collect_segments(segments, text, k) ==
    IF k > Len(InlineKinds) THEN segments
    ELSE collect_segments(
            claim_matches(segments, finditer(InlineKinds[k], text, 0), InlineKinds[k]),
            text, k + 1)

\* segments.sort(key=lambda s: s[0]) (stable)
RECURSIVE sort_segments(_)
sort_segments(segments) ==
    IF segments = <<>> THEN <<>>
    ELSE LET firsts == {k \in 1..Len(segments) :
                          \A l \in 1..Len(segments) :
                              segments[k].start <= segments[l].start}
             i == CHOOSE k \in firsts : \A l \in firsts : k <= l
         IN  <<segments[i]>> \o sort_segments(Without(segments, i))

\* the loop that builds the plain text from the sorted segments
RECURSIVE build_plain(_, _, _, _)
build_plain(text, segments, prev_end, plain) ==
    IF segments = <<>>
    THEN IF prev_end < Len(text) THEN plain \o Slice(text, prev_end, Len(text)) ELSE plain
    ELSE LET seg == Head(segments)
             literal == IF seg.start > prev_end THEN Slice(text, prev_end, seg.start)
                        ELSE <<>>
         IN  build_plain(text, Tail(segments), seg.end,
                         plain \o literal \o Slice(text, seg.from, seg.to))

\* _parse_inline: the accepted segments in source order and the plain text
parse_inline(text) ==
    LET segments == sort_segments(collect_segments(<<>>, text, 1))
    IN  [segments |-> segments, plain_text |-> build_plain(text, segments, 0, <<>>)]

InlineAlphabet == {"*", Backtick, "a"}

InitInline ==
    /\ remoteVersion = 1
    /\ remoteRevision = 1
    /\ remoteComments = [c \in CommentIds |-> [status |-> "absent", mtime |-> NoTime]]
    /\ now = 1
    /\ stateFile = NoState
    /\ cmd = IdleCmd
    /\ hist = NoHist
    /\ watch = Unused
    /\ search = Unused
    /\ edits = Unused
    /\ disk = Unused
    /\ race = Unused
    /\ merge = Unused
    /\ replies = Unused
    /\ cleanup = Unused
    /\ \E n \in 0..MaxInlineLen : \E text \in [1..n -> InlineAlphabet] :
          md = [pc |-> "input", text |-> text, segments |-> <<>>, plain_text |-> <<>>]

MdFrame == UNCHANGED <<vars, watch, search, edits, disk, race, merge, replies, cleanup>>

InlineParse ==
    /\ md.pc = "input"
    /\ md' = [md EXCEPT !.pc = "parsed",
                        !.segments = parse_inline(md.text).segments,
                        !.plain_text = parse_inline(md.text).plain_text]
    /\ MdFrame

NextInline == InlineParse

SpecInline == InitInline /\ [][NextInline]_<<vars, side>>

\* C24: the source spans of the inline constructs accepted in one line are
\* pairwise disjoint: no source character lies in two accepted spans.
C24_SpansDisjoint ==
    md.pc = "parsed" =>
        \A i, j \in 1..Len(md.segments) :
            i # j => \/ md.segments[i].end <= md.segments[j].start
                     \/ md.segments[j].end <= md.segments[i].start

\* ---- mdparse.py: paragraphs ----------------------------------------------
MaxMdLen == 5

\* the newline character
Newline == "NEWLINE"

\* text.split("\n")
RECURSIVE split_lines(_)
split_lines(text) ==
    LET breaks == {i \in 0..(Len(text) - 1) : At(text, i) = Newline}
    IN  IF breaks = {} THEN <<text>>
        ELSE LET i == CHOOSE x \in breaks : \A y \in breaks : x <= y
             IN  <<Slice(text, 0, i)>> \o split_lines(Slice(text, i + 1, Len(text)))

\* how many characters of the set the line has from offset k on, in a row
RunLength(line, k, chars) ==
    LET runs == {n \in 0..(Len(line) - k) :
                    \A j \in 0..(n - 1) : At(line, k + j) \in chars}
    IN  CHOOSE n \in runs : \A m \in runs : m <= n

Digits == {"0", "1", "2", "3", "4", "5", "6", "7", "8", "9"}

\* \s+(.+)$ from offset k on: white space, then at least one character
HasContent(line, k) == At(line, k) = " " /\ Len(line) >= k + 2

\* the group (.+): what follows the white space, or the last blank when the
\* rest of the line is blank
ContentAfter(line, k) ==
    LET w == RunLength(line, k, {" "})
    IN  IF k + w < Len(line) THEN Slice(line, k + w, Len(line))
        ELSE Slice(line, Len(line) - 1, Len(line))

\* _HEADING_RE, _BULLET_RE, _NUMBERED_RE in the order parse_markdown tries
\* them: the kind of the line, the heading level, the offset of the white
\* space before the content
classify_line(line) ==
    LET hashes == RunLength(line, 0, {"#"})
        digits == RunLength(line, 0, Digits)
    IN  IF hashes >= 1 /\ hashes <= 6 /\ HasContent(line, hashes)
        THEN [kind |-> "heading", level |-> hashes, at |-> hashes]
        ELSE IF At(line, 0) \in {"-", "*"} /\ HasContent(line, 1)
        THEN [kind |-> "bullet", level |-> 0, at |-> 1]
        ELSE IF digits >= 1 /\ At(line, digits) = "." /\ HasContent(line, digits + 1)
        THEN [kind |-> "numbered", level |-> 0, at |-> digits + 1]
        ELSE [kind |-> "plain", level |-> 0, at |-> 0]

\* the StyleRange objects _parse_inline records: one per style of a segment
RECURSIVE inline_styles(_, _, _)
inline_styles(segments, prev_end, plain_offset) ==
    IF segments = <<>> THEN <<>>
    ELSE LET seg == Head(segments)
             seg_start == plain_offset
                            + (IF seg.start > prev_end THEN seg.start - prev_end ELSE 0)
             seg_end == seg_start + (IF seg.to > seg.from THEN seg.to - seg.from ELSE 0)
             range(style) == [start |-> seg_start, end |-> seg_end,
                              type |-> "text_style", style |-> style]
         IN  (IF seg.kind = "bold_italic" THEN <<range("bold"), range("italic")>>
              ELSE <<range(seg.kind)>>)
             \o inline_styles(Tail(segments), seg.end, seg_end)

Shifted(styles, by) ==
    [k \in 1..Len(styles) |->
        [styles[k] EXCEPT !.start = @ + by, !.end = @ + by]]

\* the paragraph's own style range, if the branch of its kind records one
paragraph_range(class, para_start, offset) ==
    CASE class.kind = "heading" ->
            <<[start |-> para_start, end |-> offset, type |-> "paragraph_style",
               style |-> <<"HEADING", class.level>>]>>
      [] class.kind = "bullet" ->
            <<[start |-> para_start, end |-> offset, type |-> "bullets",
               style |-> <<"BULLET_DISC_CIRCLE_SQUARE", 0>>]>>
      [] class.kind = "numbered" ->
            <<[start |-> para_start, end |-> offset, type |-> "bullets",
               style |-> <<"NUMBERED_DECIMAL_ALPHA_ROMAN", 0>>]>>
      [] OTHER -> <<>>

\* the while loop of parse_markdown over the lines
RECURSIVE parse_lines(_, _)
parse_lines(lines, out) ==
    IF lines = <<>> THEN out
    ELSE LET line == Head(lines)
             class == classify_line(line)
             content == IF class.kind = "plain" THEN line
                        ELSE ContentAfter(line, class.at)
             inline == parse_inline(content)
             para_start == Len(out.plain_text)
             offset == para_start + Len(inline.plain_text) + 1
             text_styles == Shifted(inline_styles(inline.segments, 0, 0), para_start)
         IN  parse_lines(Tail(lines),
                [plain_text |-> out.plain_text \o inline.plain_text \o <<Newline>>,
                 styles |-> out.styles \o text_styles
                               \o paragraph_range(class, para_start, offset),
                 paragraphs |-> Append(out.paragraphs,
                                       [kind |-> class.kind, level |-> class.level,
                                        start |-> para_start, end |-> offset])])

NoParse == [plain_text |-> <<>>, styles |-> <<>>, paragraphs |-> <<>>]

parse_markdown(text) ==
    IF text = <<>> THEN NoParse ELSE parse_lines(split_lines(text), NoParse)

MdAlphabet == {"#", " ", "-", "1", ".", "a", Newline}

InitMarkdown ==
    /\ remoteVersion = 1
    /\ remoteRevision = 1
    /\ remoteComments = [c \in CommentIds |-> [status |-> "absent", mtime |-> NoTime]]
    /\ now = 1
    /\ stateFile = NoState
    /\ cmd = IdleCmd
    /\ hist = NoHist
    /\ watch = Unused
    /\ search = Unused
    /\ edits = Unused
    /\ disk = Unused
    /\ race = Unused
    /\ merge = Unused
    /\ replies = Unused
    /\ cleanup = Unused
    /\ \E n \in 0..MaxMdLen : \E text \in [1..n -> MdAlphabet] :
          md = [pc |-> "input", text |-> text, parsed |-> NoParse]

MarkdownParse ==
    /\ md.pc = "input"
    /\ md' = [md EXCEPT !.pc = "parsed", !.parsed = parse_markdown(md.text)]
    /\ MdFrame

NextMarkdown == MarkdownParse

SpecMarkdown == InitMarkdown /\ [][NextMarkdown]_<<vars, side>>

\* the paragraph-style ranges that cover exactly the paragraph
ParagraphStyles(parsed, para) ==
    {k \in 1..Len(parsed.styles) :
        /\ parsed.styles[k].type = "paragraph_style"
        /\ parsed.styles[k].start = para.start
        /\ parsed.styles[k].end = para.end}

\* C23: every paragraph the parser produces carries exactly one
\* paragraph-style range: HEADING_N for a heading line with N hashes and
\* NORMAL_TEXT for a plain paragraph, a bullet item and a numbered item.
C23_OneParagraphStyle ==
    md.pc = "parsed" =>
        \A i \in 1..Len(md.parsed.paragraphs) :
            LET para == md.parsed.paragraphs[i]
                own == ParagraphStyles(md.parsed, para)
            IN  /\ Cardinality(own) = 1
                /\ \A k \in own :
                      md.parsed.styles[k].style
                          = IF para.kind = "heading" THEN <<"HEADING", para.level>>
                            ELSE <<"NORMAL_TEXT", 0>>

\* ---- cli.py cmd_edit with --all: the locator's spans go to the main batch
\* the body cmd_edit fetched: one character per index of the text runs, one
\* element at the gap between two runs, and the final newline
ReplaceBody(doc) ==
    [i \in 1..(Len(doc.text) + (IF doc.gap # 0 THEN 1 ELSE 0) + 1) |-> i]

InitReplace ==
    /\ remoteVersion = 1
    /\ remoteRevision = 1
    /\ remoteComments = [c \in CommentIds |-> [status |-> "absent", mtime |-> NoTime]]
    /\ now = 1
    /\ stateFile = NoState
    /\ cmd = IdleCmd
    /\ hist = NoHist
    /\ watch = Unused
    /\ SearchInputs(search)
    /\ search.doc.gap < Len(search.doc.text) \/ search.doc.gap = 0
    /\ edits \in {[pc |-> "wait", matches |-> <<>>,
                   parsed |-> [plain_len |-> r, nstyles |-> ns],
                   requests |-> <<>>, body |-> <<>>] :
                     r \in 0..MaxPlainLen, ns \in 0..MaxInsertOps}
    /\ disk = Unused
    /\ MoreUnused

\* cmd_edit hands every span find_text_in_document returned to
\* replace_formatted; no match at all is an error
ReplaceStart ==
    /\ search.pc = "found"
    /\ edits.pc = "wait"
    /\ search.matches # <<>>
    /\ edits' = [edits EXCEPT !.pc = "input", !.matches = search.matches,
                              !.body = ReplaceBody(search.doc)]
    /\ UNCHANGED <<vars, watch, search, disk, more>>

NextReplace == SearchFind \/ ReplaceStart \/ EditsBuild \/ EditsApply

SpecReplace == InitReplace /\ [][NextReplace]_<<vars, side>>

\* every delete of the batch, applied in its turn, finds in its range the
\* characters that were at those indices when the document was fetched
RECURSIVE DeletesIntact(_, _)
DeletesIntact(body, reqs) ==
    \/ reqs = <<>>
    \/ /\ Head(reqs).op = "deleteContentRange" =>
              /\ Head(reqs).endIndex - 1 <= Len(body)
              /\ \A i \in Head(reqs).startIndex..(Head(reqs).endIndex - 1) :
                    body[i] = i
       /\ DeletesIntact(ApplyRequest(body, Head(reqs)), Tail(reqs))

\* the indices of the fetched document that the needle's characters are at
TextIndices(doc, span) ==
    {doc_indices(doc, n) : n \in 1..Len(doc.text)}
        \cap span.startIndex..(span.endIndex - 1)

CheckPassed == cmd.checked /\ ~NoReadBaseline /\ ~VersionDiffers

\* C26 as stated: every update_doc_content of write, push and the sync hook
\* comes after a passed read-baseline check of the same invocation or under
\* --force.
C26_EveryOverwriteChecked ==
    Issued("update_doc_content") => cmd.force \/ CheckPassed

\* C26 as amended: every update_doc_content of write and push comes after a
\* passed read-baseline check of the same invocation or under --force; the
\* sync hook is the one other caller, and it overwrites with neither.
C26_WriteAndPushChecked ==
    Issued("update_doc_content") =>
        IF cmd.name \in OverwriteCmds THEN cmd.force \/ CheckPassed
        ELSE cmd.name = "sync-hook" /\ ~cmd.force /\ ~cmd.checked

C26_Witness ==
    /\ cmd.name = "push"
    /\ cmd.quiet /\ ~cmd.force
    /\ CheckPassed
    /\ cmd.observed = cmd.baseline
    /\ Issued("update_doc_content")
    /\ cmd.outcome = "ok"

\* C27: a successful pull counts as a read: when the pull returns, the saved
\* last_read_version is the remote version its pre-flight observed (so that
\* a push right after it, with no remote change in between, passes the
\* conflict check).
C27_PullIsRead ==
    (/\ cmd.name = "pull"
     /\ cmd.pc = "done"
     /\ cmd.outcome = "ok"
     /\ cmd.observed # None)
    => /\ stateFile.exists
       /\ stateFile.st.last_read_version = cmd.observed

\* C28: after a successful edit or write of this client that recorded its
\* post-mutation version, and no third-party edit since, the non-quiet
\* pre-flight of the next command reports doc_edited = false, whatever that
\* command is and whether or not a read came before the write.
C28_OwnMutationNotAnnounced ==
    hist.own = 3 => ~hist.announced

C28_Witness ==
    /\ hist.own = 3
    /\ hist.phase = 0
    /\ cmd.name \in CommentCmds
    /\ cmd.info.present
    /\ ~cmd.info.doc_edited
    /\ cmd.info.current_version = remoteVersion
    /\ remoteVersion > 1

\* ---- notify.py: new replies under a running clock ----------------------
\* One comment, c1, that the state file knows, and one reply that somebody
\* adds to it while the clock runs.  Instants are milliseconds.  Timestamps
\* are compared as strings: a string is modelled by its instant and by the
\* character that follows the millisecond digits.
NoString == <<0, 0>>

\* strftime("%Y-%m-%dT%H:%M:%S.%fZ"): six fractional digits, so a digit
\* follows the milliseconds
strftime(t) == IF t = NoTime THEN NoString ELSE <<t, 1>>

\* createdTime as the remote service renders it: milliseconds, then Z
\* (which sorts after every digit)
created_time(t) == IF t = NoTime THEN NoString ELSE <<t, 2>>

\* a > b on strings
str_gt(a, b) == a[1] > b[1] \/ (a[1] = b[1] /\ a[2] > b[2])

NoReply == [present |-> FALSE, created |-> NoTime, action |-> FALSE]

\* c.get("replies", []) of the listed comment: list_comments asks for the
\* replies' author, modifiedTime, content and action; with_created says
\* whether the answer carries their createdTime all the same
listed_replies(reply, with_created) ==
    IF ~reply.present THEN <<>>
    ELSE <<[action |-> reply.action,
            createdTime |-> IF with_created THEN created_time(reply.created)
                            ELSE NoString]>>

\* any(not r.get("action") and r.get("createdTime", "") > start_time ...)
has_new_content_reply(listed, start_time) ==
    \E i \in 1..Len(listed) :
        ~listed[i].action /\ str_gt(listed[i].createdTime, strftime(start_time))

\* whether pre_flight puts c1 into info.new_replies
new_replies(file, comments, reply, with_created) ==
    LET state == load_state(file)
        start_time == IF state.exists THEN state.st.last_comment_check ELSE NoTime
    IN  /\ state.exists
        /\ "c1" \in list_comments(comments, start_time)
        /\ "c1" \in state.st.known_comment_ids
        /\ has_new_content_reply(listed_replies(reply, with_created), start_time)

RepliesIdle(with_created, reply, reports) ==
    [pc |-> "idle", ts |-> NoTime, info |-> NoInfo, reported |-> FALSE,
     with_created |-> with_created, reply |-> reply, reports |-> reports]

InitReplies ==
    /\ remoteVersion = 1
    /\ remoteRevision = 1
    /\ remoteComments = [c \in CommentIds |-> [status |-> "open", mtime |-> 1]]
    /\ now = 1
    /\ \E check \in {NoTime, 1} :
          stateFile = save_state([DocState0 EXCEPT
                                    !.last_seen = 1, !.last_version = 1,
                                    !.last_comment_check = check,
                                    !.known_comment_ids = {"c1"}])
    /\ cmd = IdleCmd
    /\ hist = NoHist
    /\ watch = Unused
    /\ search = Unused
    /\ edits = Unused
    /\ disk = Unused
    /\ race = Unused
    /\ merge = Unused
    /\ md = Unused
    /\ \E with_created \in BOOLEAN : replies = RepliesIdle(with_created, NoReply, {})
    /\ cleanup = Unused

RepliesFrame ==
    UNCHANGED <<remoteVersion, remoteRevision, cmd, hist, watch, search, edits,
                disk, race, merge, md, cleanup>>

RepliesTick ==
    /\ now < MaxClock
    /\ now' = now + 1
    /\ UNCHANGED <<remoteComments, stateFile, replies>>
    /\ RepliesFrame

\* somebody replies to c1, with or without a resolve/reopen action; the
\* comment's modifiedTime moves with it
OtherReply(action) ==
    /\ ~replies.reply.present
    /\ replies' = [replies EXCEPT
                     !.reply = [present |-> TRUE, created |-> now, action |-> action]]
    /\ remoteComments' = [remoteComments EXCEPT !["c1"].mtime = now]
    /\ UNCHANGED <<now, stateFile>>
    /\ RepliesFrame

\* pre_flight, up to the timestamp
RepliesCapture ==
    /\ replies.pc = "idle"
    /\ replies' = [replies EXCEPT !.pc = "list", !.ts = now]
    /\ UNCHANGED <<remoteComments, now, stateFile>>
    /\ RepliesFrame

\* pre_flight, from the comment listing on
RepliesList(ok) ==
    /\ replies.pc = "list"
    /\ replies' =
         IF ok
         THEN [replies EXCEPT
                 !.pc = "update",
                 !.info = pre_flight(stateFile, remoteVersion, remoteComments,
                                     replies.ts),
                 !.reported = new_replies(stateFile, remoteComments, replies.reply,
                                          replies.with_created)]
         ELSE RepliesIdle(replies.with_created, replies.reply, replies.reports)
    /\ UNCHANGED <<remoteComments, now, stateFile>>
    /\ RepliesFrame

\* the command completes and saves the state
RepliesUpdate ==
    /\ replies.pc = "update"
    /\ stateFile' = update_state_after_command(
                        stateFile, replies.info, "cat", FALSE, None,
                        comment_state_patch("cat", NoId), now)
    /\ replies' = RepliesIdle(replies.with_created, replies.reply,
                              IF replies.reported
                              THEN replies.reports \cup {replies.ts}
                              ELSE replies.reports)
    /\ UNCHANGED <<remoteComments, now>>
    /\ RepliesFrame

NextReplies ==
    \/ RepliesTick
    \/ \E action \in BOOLEAN : OtherReply(action)
    \/ RepliesCapture
    \/ \E ok \in BOOLEAN : RepliesList(ok)
    \/ RepliesUpdate

SpecReplies == InitReplies /\ [][NextReplies]_<<vars, side>>

MaxCleanupLen == 4
MaxOtherEdits == 1

Char(kind, style, id) == [kind |-> kind, style |-> style, id |-> id]

NoChar == Char("none", "-", 0)

CharKinds ==
    {<<"text", "-">>, <<"newline", "NORMAL_TEXT">>, <<"newline", "HEADING_1">>}

CleanupBodies ==
    UNION {{[i \in 1..n |-> Char(f[i][1], f[i][2], i)] :
                f \in {g \in [1..n -> CharKinds] : g[n][1] = "newline"}} :
           n \in 1..MaxCleanupLen}

\* elem.get("startIndex") == position and "paragraph" in elem
paragraph_starts_at(body, position) ==
    /\ position \in 1..Len(body)
    /\ position = 1 \/ body[position - 1].kind = "newline"

\* startIndex and endIndex of the paragraph that index i is in
paragraph_start(body, i) ==
    CHOOSE a \in 1..i :
        /\ paragraph_starts_at(body, a)
        /\ \A k \in a..(i - 1) : body[k].kind # "newline"

paragraph_end(body, i) ==
    1 + CHOOSE b \in i..Len(body) :
            /\ body[b].kind = "newline"
            /\ \A k \in i..(b - 1) : body[k].kind # "newline"

\* _build_cleanup_requests(body, position)
build_cleanup_requests(body, position) ==
    IF ~paragraph_starts_at(body, position) THEN <<>>
    ELSE IF body[position].kind # "newline" \/ body[position].style = "NORMAL_TEXT"
    THEN <<>>
    ELSE (IF position > 1 /\ body[position - 1].style = "NORMAL_TEXT"
          THEN <<[op |-> "updateParagraphStyle",
                  startIndex |-> paragraph_start(body, position - 1),
                  endIndex |-> position,
                  style |-> body[position].style]>>
          ELSE <<>>)
         \o <<[op |-> "deleteContentRange", startIndex |-> position,
                endIndex |-> position + 1, style |-> "-"]>>

\* the remote service refuses a range outside the body and the deletion of
\* the body's last newline
RemoteRefuses(body, req) ==
    \/ req.startIndex < 1
    \/ req.endIndex > Len(body) + 1
    \/ req.op = "deleteContentRange" /\ req.endIndex > Len(body)

\* one request of the cleanup batch applied by the remote service
ApplyCleanupRequest(body, req) ==
    IF req.op = "updateParagraphStyle"
    THEN [i \in 1..Len(body) |->
            IF /\ body[i].kind = "newline"
               /\ paragraph_start(body, i) < req.endIndex
               /\ paragraph_end(body, i) > req.startIndex
            THEN [body[i] EXCEPT !.style = req.style]
            ELSE body[i]]
    ELSE SubSeq(body, 1, req.startIndex - 1) \o SubSeq(body, req.endIndex, Len(body))

RECURSIVE ApplyCleanupRequests(_, _)
ApplyCleanupRequests(body, reqs) ==
    IF reqs = <<>> THEN body
    ELSE ApplyCleanupRequests(ApplyCleanupRequest(body, Head(reqs)), Tail(reqs))

InitCleanup ==
    /\ remoteVersion = 1
    /\ remoteRevision = 1
    /\ remoteComments = [c \in CommentIds |-> [status |-> "absent", mtime |-> NoTime]]
    /\ now = 1
    /\ stateFile = NoState
    /\ cmd = IdleCmd
    /\ hist = NoHist
    /\ watch = Unused
    /\ search = Unused
    /\ edits = Unused
    /\ disk = Unused
    /\ race = Unused
    /\ merge = Unused
    /\ md = Unused
    /\ replies = Unused
    /\ \E body \in CleanupBodies, position \in 1..MaxCleanupLen :
          /\ position <= Len(body)
          /\ cleanup = [pc |-> "fetch", remote |-> body, adjusted_pos |-> position,
                        all_cleanup |-> <<>>, other_edits |-> 0,
                        deleted |-> NoChar, empty_styled |-> FALSE,
                        outcome |-> "running"]

CleanupFrame ==
    UNCHANGED <<vars, watch, search, edits, disk, race, merge, md, replies>>

\* documents().get after the main batch, then the cleanup requests for the
\* site
CleanupFetch ==
    /\ cleanup.pc = "fetch"
    /\ cleanup' = [cleanup EXCEPT
                     !.pc = "submit",
                     !.all_cleanup = build_cleanup_requests(cleanup.remote,
                                                            cleanup.adjusted_pos)]
    /\ CleanupFrame

\* another editor types a character or deletes one
OtherEditorInsert(i) ==
    /\ cleanup.pc \in {"fetch", "submit"}
    /\ cleanup.other_edits < MaxOtherEdits
    /\ i \in 1..Len(cleanup.remote)
    /\ cleanup' = [cleanup EXCEPT
                     !.other_edits = @ + 1,
                     !.remote = SubSeq(@, 1, i - 1) \o <<Char("text", "-", 0)>>
                                    \o SubSeq(@, i, Len(@))]
    /\ CleanupFrame

OtherEditorDelete(i) ==
    /\ cleanup.pc \in {"fetch", "submit"}
    /\ cleanup.other_edits < MaxOtherEdits
    /\ i \in 1..(Len(cleanup.remote) - 1)
    /\ cleanup' = [cleanup EXCEPT
                     !.other_edits = @ + 1,
                     !.remote = SubSeq(@, 1, i - 1) \o SubSeq(@, i + 1, Len(@))]
    /\ CleanupFrame

\* if all_cleanup: batchUpdate(body={"requests": all_cleanup}); the batch
\* names no revision, so it is applied to the body as it is by now
CleanupSubmit ==
    /\ cleanup.pc = "submit"
    /\ LET reqs == cleanup.all_cleanup
           body == cleanup.remote
           pos == cleanup.adjusted_pos
       IN  cleanup' =
             IF reqs = <<>> THEN [cleanup EXCEPT !.pc = "done", !.outcome = "ok"]
             ELSE IF \E k \in 1..Len(reqs) : RemoteRefuses(body, reqs[k])
             THEN [cleanup EXCEPT !.pc = "done", !.outcome = "backend"]
             ELSE [cleanup EXCEPT
                     !.pc = "done", !.outcome = "ok",
                     !.remote = ApplyCleanupRequests(body, reqs),
                     !.deleted = body[pos],
                     !.empty_styled =
                         /\ paragraph_starts_at(body, pos)
                         /\ body[pos].kind = "newline"
                         /\ body[pos].style # "NORMAL_TEXT"]
    /\ CleanupFrame

NextCleanup ==
    \/ CleanupFetch
    \/ \E i \in 1..(MaxCleanupLen + MaxOtherEdits) : OtherEditorInsert(i)
    \/ \E i \in 1..(MaxCleanupLen + MaxOtherEdits) : OtherEditorDelete(i)
    \/ CleanupSubmit

SpecCleanup == InitCleanup /\ [][NextCleanup]_<<vars, side>>

====
